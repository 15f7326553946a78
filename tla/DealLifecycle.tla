--------------------------- MODULE DealLifecycle ---------------------------
(***************************************************************************)
(* A deal on its way to FUNDING: DealsService drafts, edits, submits,      *)
(* reviews, publishes and cancels it, and every change of its status goes  *)
(* through DealLifecycleService.transitionDeal, which checks the status it *)
(* has read against DEAL_TRANSITIONS and writes the new one in a later     *)
(* transaction.  An edit too is checked on the deal as it was read, and    *)
(* writes back all economics of that deal when it changes one of them.     *)
(*                                                                         *)
(* A request that reads twice before it writes reads once here: when the   *)
(* status has changed between the two reads it ends without a write, and   *)
(* nothing else is decided on the first one.                               *)
(***************************************************************************)
EXTENDS Integers, Sequences

CONSTANTS
    Workers,            \* requests that can be served at the same time
    Drafts,             \* what a deal may be created with
    Edits,              \* what an update may change, as functions from fields
    ApprovedProjects,   \* projects with status APPROVED
    NoProject,
    NoText,             \* no deal terms are written yet
    MaxEdits            \* bound on the edits

ASSUME LifecycleAssumption ==
    /\ \A d \in Drafts : \A f \in {"target", "units", "minimum", "maximum"} : d[f] \in Nat
    /\ \A e \in Edits :
          /\ \A f \in DOMAIN e \cap {"target", "units", "minimum", "maximum"} : e[f] \in Nat
          /\ "text" \in DOMAIN e => e.text # NoText
    /\ MaxEdits \in Nat

VARIABLES
    deal,       \* the deal's status and totalInvested
    offer,      \* its economics, its project and the text of its terms
    approved,   \* history: the offer as it was when the deal was APPROVED
    edits,      \* edits made so far, until funding begins
    task,       \* the request each worker is serving, and what it has read
    overlapped  \* two requests have been served at the same time

offerVars == <<offer, approved, edits>>

\* assertDealEconomics looks at these, and at the shares (module ProfitSplit).
Economics == {"target", "units", "minimum", "maximum"}

NoOffer == [target |-> 0, units |-> 0, minimum |-> 0, maximum |-> 0, price |-> 0,
            project |-> NoProject, text |-> NoText]

DealTransitions ==
    [none                   |-> {},
     DRAFT                  |-> {"SUBMITTED", "CANCELLED"},
     SUBMITTED              |-> {"UNDER_REVIEW", "CANCELLED"},
     UNDER_REVIEW           |-> {"APPROVED", "REJECTED"},
     APPROVED               |-> {"SMART_CONTRACT_CREATED"},
     REJECTED               |-> {},
     SMART_CONTRACT_CREATED |-> {"PUBLISHED"},
     PUBLISHED              |-> {"FUNDING"},
     FUNDING                |-> {"FUNDED", "CANCELLED"},
     FUNDED                 |-> {"ACTIVE"},
     CANCELLED              |-> {}]

None == [op |-> "none"]

\* A worker has read what it needs and has yet to write.
Begin(w, t) ==
    /\ task[w] = None
    /\ task' = [task EXCEPT ![w] = t]
    /\ overlapped' = (overlapped \/ \E v \in Workers : task[v] # None)

Continue(w, t) == task' = [task EXCEPT ![w] = t] /\ UNCHANGED overlapped

Finish(w) == Continue(w, None)

At(w, op, pc) == task[w].op = op /\ task[w].pc = pc

LifecycleInit ==
    /\ deal = [status |-> "none", total |-> 0]
    /\ offer = NoOffer
    /\ approved = NoOffer
    /\ edits = 0
    /\ task = [w \in Workers |-> None]
    /\ overlapped = FALSE

----------------------------------------------------------------------------
(***************************************************************************)
(* create, update and saveDealTerms.                                       *)
(***************************************************************************)
Economical(e) ==
    /\ e.minimum <= e.maximum
    /\ \A f \in {"target", "units", "minimum"} : e[f] > 0

\* Math.round, in units of the last of four places.
UnitPriceOf(target, units) == (2 * target + units) \div (2 * units)

CreateDeal(d) ==
    /\ deal.status = "none"
    /\ d.project \in ApprovedProjects
    /\ Economical(d)
    /\ deal' = [status |-> "DRAFT", total |-> 0]
    /\ offer' = [f \in DOMAIN NoOffer |->
                    CASE f = "price" -> UnitPriceOf(d.target, d.units)
                      [] f = "text" -> NoText
                      [] OTHER -> d[f]]
    /\ UNCHANGED <<approved, edits, task, overlapped>>

\* Mutant: a deal can be edited until it is published.
Editable_Unpublished(status) ==
    status \in {"DRAFT", "SUBMITTED", "UNDER_REVIEW", "APPROVED", "SMART_CONTRACT_CREATED"}

Editable(status) == status \in {"DRAFT", "SUBMITTED"}

EditRead(w, edit) ==
    /\ Editable(deal.status)
    /\ edits < MaxEdits
    /\ edits' = edits + 1
    /\ Begin(w, [op |-> "edit", edit |-> edit, seen |-> offer,
                 pc |-> IF "text" \in DOMAIN edit THEN "text" ELSE "fields"])
    /\ UNCHANGED <<deal, offer, approved>>

\* saveDealTerms.  It answers a request of its own, or update goes on with the
\* other fields, and throws when there are none or when they do not agree.
TextWrite(w) ==
    LET t == task[w] IN
    /\ At(w, "edit", "text")
    /\ offer' = [offer EXCEPT !.text = t.edit.text]
    /\ IF DOMAIN t.edit = {"text"} THEN Finish(w)
       ELSE Continue(w, [t EXCEPT !.pc = "fields"])
    /\ UNCHANGED <<deal, approved, edits>>

\* The economics of the deal that was read, with those the edit carries.
Effective(seen, edit) ==
    [f \in Economics |-> IF f \in DOMAIN edit THEN edit[f] ELSE seen[f]]

Touches(edit, fields) == DOMAIN edit \cap fields # {}

\* The row after the update: one field of the economics brings all of them,
\* the price follows the target and the units.
Edited(seen, edit) ==
    LET e == Effective(seen, edit) IN
    [f \in DOMAIN offer |->
        CASE f \in Economics /\ Touches(edit, Economics) -> e[f]
          [] f = "price" /\ Touches(edit, {"target", "units"}) ->
                UnitPriceOf(e.target, e.units)
          [] f = "project" /\ f \in DOMAIN edit -> edit[f]
          [] OTHER -> offer[f]]

OfferWrite(w) ==
    LET t == task[w] IN
    /\ At(w, "edit", "fields")
    /\ offer' = IF Touches(t.edit, Economics) => Economical(Effective(t.seen, t.edit))
                THEN Edited(t.seen, t.edit)
                ELSE offer
    /\ Finish(w)
    /\ UNCHANGED <<deal, approved, edits>>

(***************************************************************************)
(* transitionDeal, once for each status on the path a request takes the    *)
(* deal along.  A transition that is not allowed throws, one to the status *)
(* the deal has already ends at once.                                      *)
(***************************************************************************)
Allowed(path) == Head(path) \in DealTransitions[deal.status]

StartTransition(w, path) ==
    /\ Allowed(path)
    /\ Begin(w, [op |-> "transition", pc |-> "write", path |-> path])
    /\ UNCHANGED <<deal, offerVars>>

TransitionWrite(w) ==
    LET path == task[w].path IN
    /\ At(w, "transition", "write")
    /\ deal' = [deal EXCEPT !.status = Head(path)]
    /\ approved' = IF Head(path) = "APPROVED" THEN offer ELSE approved
    /\ IF Len(path) = 1 THEN Finish(w)
       ELSE Continue(w, [task[w] EXCEPT !.pc = "read", !.path = Tail(path)])
    /\ UNCHANGED <<offer, edits>>

TransitionRead(w) ==
    /\ At(w, "transition", "read")
    /\ IF Allowed(task[w].path) THEN Continue(w, [task[w] EXCEPT !.pc = "write"])
       ELSE Finish(w)
    /\ UNCHANGED <<deal, offerVars>>

\* validateDealCompleteness.
Complete(o) ==
    /\ Economical(o)
    /\ o.project \in ApprovedProjects
    /\ o.text # NoText

Submit(w) ==
    /\ deal.status = "DRAFT"
    /\ Complete(offer)
    /\ StartTransition(w, <<"SUBMITTED">>)

\* approve and reject take a SUBMITTED deal under review first.
Review(w, decision) ==
    StartTransition(w, IF deal.status = "SUBMITTED" THEN <<"UNDER_REVIEW", decision>>
                       ELSE <<decision>>)

MarkSmartContractCreated(w) ==
    /\ deal.status = "APPROVED"
    /\ StartTransition(w, <<"SMART_CONTRACT_CREATED">>)

Publish(w) == StartTransition(w, <<"PUBLISHED">>)

Cancel(w) == StartTransition(w, <<"CANCELLED">>)

(***************************************************************************)
(* No code moves a deal from PUBLISHED to FUNDING: an operator does, when  *)
(* the requests that reviewed and published it are long answered.  There   *)
(* are no edits after that, and their bound is no longer needed.           *)
(***************************************************************************)
OpenFunding ==
    /\ deal.status = "PUBLISHED"
    /\ \A w \in Workers : task[w] = None
    /\ deal' = [deal EXCEPT !.status = "FUNDING"]
    /\ edits' = 0
    /\ UNCHANGED <<offer, approved, task, overlapped>>

LifecycleStep ==
    \/ \E d \in Drafts : CreateDeal(d)
    \/ OpenFunding
    \/ \E w \in Workers :
          \/ \E edit \in Edits : EditRead(w, edit)
          \/ TextWrite(w)
          \/ OfferWrite(w)
          \/ Submit(w)
          \/ \E decision \in {"APPROVED", "REJECTED"} : Review(w, decision)
          \/ MarkSmartContractCreated(w)
          \/ Publish(w)
          \/ Cancel(w)
          \/ TransitionRead(w)
          \/ TransitionWrite(w)

LifecycleTypeOK ==
    /\ deal.status \in DOMAIN DealTransitions
    /\ deal.total \in Nat
    /\ \A o \in {offer, approved} :
          /\ DOMAIN o = DOMAIN NoOffer
          /\ \A f \in Economics \cup {"price"} : o[f] \in Nat
    /\ edits \in 0 .. MaxEdits
    /\ overlapped \in BOOLEAN
=============================================================================
