--------------------------- MODULE PaymentProofs ---------------------------
(***************************************************************************)
(* What holds of PaymentSettlement for any payments, investments, amounts, *)
(* number of requests and faults.  However requests overlap and fail, only *)
(* money that a provider has collected for a payment is booked and         *)
(* confirms its investment, no deposit is lost, and only a fault keeps a   *)
(* settled payment from its investment.  When requests do not              *)
(* overlap, the books agree whatever fails, and without failures a payment *)
(* has at most one charge that counts.                                     *)
(***************************************************************************)
EXTENDS PaymentSettlement, SumLemmas

Pcs == {"idle", "load", "attempt", "charge", "record", "lookup", "store", "refund",
        "mark", "reread", "ask", "settle", "confirm", "include", "book", "rejected",
        "catch", "fail", "end"}

Row == [status : {"none", "PENDING", "PROCESSING", "COMPLETED", "FAILED", "REFUNDED"},
        ref : Workers \cup {NoCharge}]

Task == [pc : Pcs, kind : {"none", "process", "caught", "reconcile", "webhook"},
         payment : Payments \cup {NoPayment}, found : Payments \cup {NoPayment},
         seen : Row \cup {NoPayment}, event : Event \cup {NoEvent}, total : Nat]

Shapes ==
    /\ payment \in [Payments -> Row]
    /\ attempt \in [Workers -> {"none", "PROCESSING", "COMPLETED", "FAILED"}]
    /\ charge \in [Workers -> {"none", "open", "paid", "declined", "refunded"}]
    /\ webhook \in [Event -> {"none", "stored", "processed"}]
    /\ investment \in [Investments -> {"PENDING", "CONFIRMED", "FAILED"}]
    /\ deal \in [total : Nat, funded : BOOLEAN]
    /\ escrow \in Nat
    /\ faults \in Nat
    /\ posted \in [Keys -> Nat]
    /\ task \in [Workers -> Task]
    /\ failing \subseteq Investments
    /\ interrupted \subseteq Payments

\* The charge of worker v was made for payment p.
MadeFor(v, p) == charge[v] # "none" /\ task[v].payment = p

\* A worker that has made a charge keeps the payment it made it for, and the
\* mock provider collects at once.
Charges ==
    \A v \in Workers : charge[v] # "none" =>
        /\ task[v].pc # "idle"
        /\ task[v].payment \in Inline => charge[v] = "paid"

\* The reference a payment carries is that of a charge made for it.
References ==
    \A p \in Payments :
        payment[p].ref \in Workers => MadeFor(payment[p].ref, p)

\* What a request knows where it stands.
Grounded(w) ==
    LET t == task[w] IN
    /\ t.kind \in {"process", "caught", "reconcile"} => t.payment \in Payments
    /\ t.kind = "webhook" => t.event \in Event
    /\ t.pc \in {"load", "attempt", "charge", "rejected", "record", "reread", "catch"} =>
          t.kind = "process"
    /\ t.pc \in {"load", "attempt", "charge", "record", "reread", "ask"} =>
          t.payment \in Payments /\ t.found = t.payment
    /\ t.pc \in {"load", "attempt", "charge"} => charge[w] = "none"
    /\ t.pc = "record" => charge[w] # "none"
    /\ t.pc = "reread" => payment[t.payment].ref \in Workers
    /\ t.pc = "ask" =>
          /\ t.seen \in Row
          /\ t.seen.ref \in Workers
          /\ MadeFor(t.seen.ref, t.found)
    /\ t.pc \in {"lookup", "store", "refund", "mark"} => t.event \in Event
    /\ t.pc \in {"lookup", "store"} =>
          (t.event.type = "SUCCEEDED" => charge[t.event.charge] \in {"paid", "refunded"})
    /\ t.pc = "store" /\ t.found # NoPayment =>
          t.seen \in Row /\ MadeFor(t.event.charge, t.found)
    /\ t.pc \in {"settle", "confirm", "include", "book", "fail", "refund"} =>
          t.found \in Payments
    /\ t.pc = "settle" => CollectedFor(t.found)
    /\ t.pc \in {"confirm", "include", "book"} =>
          /\ InvestmentOf[t.found] \in Investments
          /\ posted[<<"settlement", t.found>>] > 0

IInv ==
    /\ Shapes
    /\ Charges
    /\ References
    /\ \A w \in Workers : Grounded(w)
    /\ OnlyCollectedIsBooked

----------------------------------------------------------------------------
(***************************************************************************)
(* What no step takes back.                                                *)
(***************************************************************************)
Onward ==
    /\ \A v \in Workers : charge[v] # "none" =>
          /\ charge'[v] # "none"
          /\ task'[v].payment = task[v].payment
          /\ charge[v] \in {"paid", "refunded"} => charge'[v] \in {"paid", "refunded"}
    /\ \A v \in Workers : charge[v] = "none" /\ task'[v] = task[v] => charge'[v] = "none"
    /\ \A p \in Payments : payment[p].ref \in Workers => payment'[p].ref \in Workers
    /\ \A k \in Keys : posted[k] > 0 => posted'[k] > 0

LEMMA Keeping ==
    ASSUME Onward
    PROVE  /\ \A v \in Workers : \A p : MadeFor(v, p) => MadeFor(v, p)'
           /\ \A p : CollectedFor(p) => CollectedFor(p)'
<1>1. ASSUME NEW v \in Workers, NEW p, MadeFor(v, p) PROVE MadeFor(v, p)'
  BY <1>1 DEF Onward, MadeFor
<1>2. ASSUME NEW p, CollectedFor(p) PROVE CollectedFor(p)'
  <2>1. PICK v \in Workers : task[v].payment = p /\ charge[v] \in {"paid", "refunded"}
    BY <1>2 DEF CollectedFor
  <2>2. task'[v].payment = p /\ charge'[v] \in {"paid", "refunded"}
    BY <2>1 DEF Onward
  <2>. QED BY <2>2 DEF CollectedFor
<1>. QED BY <1>1, <1>2

LEMMA SettlementKeys ==
    /\ \A p \in Payments : <<"settlement", p>> \in Keys
    /\ \A i \in Investments : <<"confirm", i>> \in Keys
  BY DEF Keys

\* A worker that does not move still knows what it knew.
LEMMA OthersStayGrounded ==
    ASSUME IInv, Shapes', Onward, NEW v \in Workers, task'[v] = task[v]
    PROVE  Grounded(v)'
<1>. DEFINE t == task[v]
<1>1. /\ t \in Task
      /\ Grounded(v)
      /\ t = task'[v]
  BY DEF IInv, Shapes
<1>2. /\ t.pc = "record" => charge'[v] # "none"
      /\ t.pc \in {"load", "attempt", "charge"} => charge'[v] = "none"
  BY <1>1 DEF Grounded, Onward
<1>3. t.pc = "reread" => payment'[t.payment].ref \in Workers
  BY <1>1 DEF Grounded, Onward
<1>4. t.pc = "ask" => MadeFor(t.seen.ref, t.found)'
  BY <1>1, Keeping DEF Grounded
<1>5. t.pc \in {"lookup", "store"} =>
        (t.event.type = "SUCCEEDED" => charge'[t.event.charge] \in {"paid", "refunded"})
  BY <1>1 DEF Grounded, Onward, Event
<1>6. t.pc = "store" /\ t.found # NoPayment => MadeFor(t.event.charge, t.found)'
  BY <1>1, Keeping DEF Grounded, Event
<1>7. t.pc = "settle" => CollectedFor(t.found)'
  BY <1>1, Keeping DEF Grounded
<1>8. t.pc \in {"confirm", "include", "book"} => posted'[<<"settlement", t.found>>] > 0
  BY <1>1, SettlementKeys DEF Grounded, Onward
<1>. QED
  BY <1>1, <1>2, <1>3, <1>4, <1>5, <1>6, <1>7, <1>8 DEF Grounded

\* The request of w goes on, or ends.
Moves(w) ==
    /\ task[w].pc # "idle" /\ task'[w].pc # "idle"
    /\ task'[w].payment = task[w].payment
    /\ \A v \in Workers \ {w} : task'[v] = task[v]

Ended(p) == [Idle EXCEPT !.pc = "end", !.payment = p]

LEMMA Continuing ==
    ASSUME Shapes, NEW w \in Workers, NEW t \in Task, NEW pc \in Pcs \ {"idle"},
           task[w].pc # "idle", t.payment = task[w].payment, Continue(w, t, pc)
    PROVE  /\ task' \in [Workers -> Task]
           /\ Moves(w)
           /\ task'[w].pc = pc
           /\ pc # "end" => task'[w] = [t EXCEPT !.pc = pc]
           /\ pc = "end" => task'[w] = Ended(t.payment)
<1>1. CASE pc = "end"
  <2>1. Ended(t.payment) \in Task
    BY DEF Ended, Idle, Task, Pcs
  <2>2. task' = [task EXCEPT ![w] = Ended(t.payment)]
    BY <1>1 DEF Continue, Ended
  <2>. QED BY <1>1, <2>1, <2>2 DEF Shapes, Moves, Ended, Idle
<1>2. CASE pc # "end"
  <2>1. [t EXCEPT !.pc = pc] \in Task
    BY DEF Task
  <2>2. task' = [task EXCEPT ![w] = [t EXCEPT !.pc = pc]]
    BY <1>2 DEF Continue
  <2>. QED BY <1>2, <2>1, <2>2 DEF Shapes, Moves, Task
<1>. QED BY <1>1, <1>2

LEMMA EndIsGrounded ==
    ASSUME NEW w, NEW p, task'[w] = Ended(p)
    PROVE  Grounded(w)'
  BY DEF Grounded, Ended, Idle

\* A step of a request that touches no charge, reference, investment or posting.
LEMMA QuietStep ==
    ASSUME IInv, Shapes', NEW w \in Workers, Moves(w),
           UNCHANGED <<charge, investment, posted>>,
           \A p \in Payments : payment'[p].ref = payment[p].ref,
           Onward => Grounded(w)'
    PROVE  IInv'
<1>1. Onward
  BY DEF IInv, Shapes, Onward, Moves
<1>2. \A v \in Workers : Grounded(v)'
  BY <1>1, OthersStayGrounded DEF Moves
<1>3. Charges'
  BY DEF IInv, Charges, Moves
<1>4. References'
  BY <1>1, Keeping DEF IInv, References
<1>5. OnlyCollectedIsBooked'
  BY <1>1, Keeping DEF IInv, OnlyCollectedIsBooked
<1>. QED BY <1>2, <1>3, <1>4, <1>5 DEF IInv

LEMMA QuietEnd ==
    ASSUME IInv, NEW w \in Workers, task[w].pc # "idle", Goto(w, "end"),
           UNCHANGED <<payment, attempt, charge, investment, deal, escrow, posted>>,
           webhook' \in [Event -> {"none", "stored", "processed"}],
           faults' \in Nat, failing' = failing, interrupted' \subseteq Payments
    PROVE  IInv'
<1>1. /\ task' \in [Workers -> Task]
      /\ Moves(w)
      /\ task'[w] = Ended(task[w].payment)
  BY Continuing DEF IInv, Shapes, Goto, Pcs
<1>2. Shapes'
  BY <1>1 DEF IInv, Shapes
<1>. QED BY <1>1, <1>2, QuietStep, EndIsGrounded

\* A free worker takes a request.
LEMMA Beginning ==
    ASSUME IInv, NEW w \in Workers, NEW t \in Task, t.pc # "idle", Begin(w, t),
           Onward /\ task'[w] = t /\ charge'[w] = "none" => Grounded(w)'
    PROVE  IInv'
<1>1. /\ task' \in [Workers -> Task]
      /\ task'[w] = t
      /\ \A v \in Workers \ {w} : task'[v] = task[v]
      /\ charge[w] = "none"
      /\ UNCHANGED <<store, faults, failing, interrupted>>
  BY DEF IInv, Shapes, Begin, Charges
<1>2. Shapes'
  BY <1>1 DEF IInv, Shapes, store
<1>3. Onward
  BY <1>1 DEF IInv, Shapes, Onward, store
<1>4. \A v \in Workers : Grounded(v)'
  BY <1>1, <1>2, <1>3, OthersStayGrounded DEF store
<1>5. Charges'
  BY <1>1 DEF IInv, Charges, store
<1>6. References'
  BY <1>1, <1>3, Keeping DEF IInv, References, store
<1>7. OnlyCollectedIsBooked'
  BY <1>1, <1>3, Keeping DEF IInv, OnlyCollectedIsBooked, store
<1>. QED BY <1>2, <1>4, <1>5, <1>6, <1>7 DEF IInv

----------------------------------------------------------------------------
(***************************************************************************)
(* Requests.                                                               *)
(***************************************************************************)
LEMMA CreatePaymentPreserves ==
    ASSUME IInv, NEW p \in Payments, CreatePayment(p)
    PROVE  IInv'
<1>1. Shapes' /\ \A q \in Payments : payment'[q].ref = payment[q].ref
  BY DEF IInv, Shapes, CreatePayment, Row
<1>2. Onward
  BY <1>1 DEF IInv, Shapes, Onward, CreatePayment
<1>3. \A v \in Workers : Grounded(v)'
  BY <1>1, <1>2, OthersStayGrounded DEF CreatePayment
<1>4. Charges'
  BY DEF IInv, Charges, CreatePayment
<1>5. References'
  BY <1>1, <1>2, Keeping DEF IInv, References
<1>6. OnlyCollectedIsBooked'
  BY <1>2, Keeping DEF IInv, OnlyCollectedIsBooked, CreatePayment
<1>. QED BY <1>1, <1>3, <1>4, <1>5, <1>6 DEF IInv

LEMMA PaymentTaskIsTask ==
    ASSUME Shapes, NEW p \in Payments, NEW pc \in Pcs, NEW kind \in {"process", "reconcile"}
    PROVE  /\ PaymentTask(pc, kind, p) \in Task
           /\ PaymentTask(pc, kind, p).pc = pc
           /\ PaymentTask(pc, kind, p).kind = kind
           /\ PaymentTask(pc, kind, p).payment = p
           /\ PaymentTask(pc, kind, p).found = p
           /\ PaymentTask(pc, kind, p).seen = payment[p]
  BY DEF Shapes, PaymentTask, Idle, Task

LEMMA RequestProcessPreserves ==
    ASSUME IInv, NEW w \in Workers, NEW p \in Payments, RequestProcess(w, p)
    PROVE  IInv'
<1>1. CASE Processable(payment[p].status)
  <2>. DEFINE t == PaymentTask("attempt", "process", p)
  <2>1. /\ t \in Task /\ t.pc = "attempt" /\ t.kind = "process"
        /\ t.payment = p /\ t.found = p
    BY PaymentTaskIsTask DEF IInv, Pcs
  <2>2. Begin(w, t)
    BY <1>1 DEF RequestProcess
  <2>3. task'[w] = t /\ charge'[w] = "none" => Grounded(w)'
    BY <2>1 DEF Grounded
  <2>. QED BY <2>1, <2>2, <2>3, Beginning
<1>2. CASE ~ Processable(payment[p].status)
  <2>1. Ended(p) \in Task /\ Ended(p).pc = "end"
    BY DEF Ended, Idle, Task, Pcs
  <2>2. Begin(w, Ended(p))
    BY <1>2 DEF RequestProcess, Ended
  <2>. QED BY <2>1, <2>2, Beginning, EndIsGrounded
<1>. QED BY <1>1, <1>2

LEMMA ReconcilePreserves ==
    ASSUME IInv, NEW w \in Workers, NEW p \in Payments, Reconcile(w, p)
    PROVE  IInv'
<1>1. CASE payment[p].ref = NoCharge
  <2>. DEFINE t == PaymentTask("load", "process", p)
  <2>1. /\ t \in Task /\ t.pc = "load" /\ t.kind = "process"
        /\ t.payment = p /\ t.found = p
    BY PaymentTaskIsTask DEF IInv, Pcs
  <2>2. Begin(w, t)
    BY <1>1 DEF Reconcile
  <2>3. task'[w] = t /\ charge'[w] = "none" => Grounded(w)'
    BY <2>1 DEF Grounded
  <2>. QED BY <2>1, <2>2, <2>3, Beginning
<1>2. CASE payment[p].ref # NoCharge
  <2>. DEFINE t == PaymentTask("ask", "reconcile", p)
  <2>1. /\ t \in Task /\ t.pc = "ask" /\ t.kind = "reconcile"
        /\ t.payment = p /\ t.found = p /\ t.seen = payment[p]
    BY PaymentTaskIsTask DEF IInv, Pcs
  <2>2. Begin(w, t)
    BY <1>2 DEF Reconcile
  <2>3. payment[p] \in Row /\ payment[p].ref \in Workers
    BY <1>2 DEF IInv, Shapes, Row
  <2>4. PICK r \in Workers : r = payment[p].ref
    BY <2>3
  <2>5. Onward => MadeFor(r, p)'
    BY <2>3, <2>4, Keeping DEF IInv, References
  <2>. HIDE DEF t
  <2>6. Onward /\ task'[w] = t => Grounded(w)'
    BY <2>1, <2>3, <2>4, <2>5 DEF Grounded
  <2>. QED BY <2>1, <2>2, <2>6, Beginning
<1>. QED BY <1>1, <1>2

LEMMA DeliverPreserves ==
    ASSUME IInv, NEW w \in Workers, NEW e \in Event, Deliver(w, e)
    PROVE  IInv'
<1>. DEFINE t == [Idle EXCEPT !.pc = "lookup", !.kind = "webhook", !.event = e]
<1>1. /\ t \in Task /\ t.pc = "lookup" /\ t.kind = "webhook" /\ t.event = e
  BY DEF Idle, Task, Pcs
<1>2. Begin(w, t)
  BY DEF Deliver
<1>3. e.type = "SUCCEEDED" => charge[e.charge] \in {"paid", "refunded"}
  BY DEF Deliver
<1>4. Onward => (e.type = "SUCCEEDED" => charge'[e.charge] \in {"paid", "refunded"})
  BY <1>3 DEF Onward, Event
<1>. HIDE DEF t
<1>5. Onward /\ task'[w] = t => Grounded(w)'
  BY <1>1, <1>4 DEF Grounded
<1>. QED BY <1>1, <1>2, <1>5, Beginning

----------------------------------------------------------------------------
(***************************************************************************)
(* processPayment.                                                         *)
(***************************************************************************)
LEMMA LoadPreserves ==
    ASSUME IInv, NEW w \in Workers, Load(w)
    PROVE  IInv'
<1>. DEFINE t == [task[w] EXCEPT !.seen = payment[task[w].payment]]
            pc == IF Processable(payment[task[w].payment].status) THEN "attempt" ELSE "end"
<1>1. /\ task[w] \in Task /\ Grounded(w) /\ task[w].pc = "load"
      /\ Continue(w, t, pc) /\ UNCHANGED <<store, faults, failing, interrupted>>
  BY DEF IInv, Shapes, Load
<1>2. /\ task[w].payment \in Payments /\ task[w].found = task[w].payment
      /\ task[w].kind = "process"
  BY <1>1 DEF Grounded
<1>3. t \in Task /\ t.payment = task[w].payment /\ t.kind = "process" /\ t.found = t.payment
  BY <1>1, <1>2 DEF IInv, Shapes, Task
<1>4. pc \in Pcs \ {"idle"} /\ pc \in {"attempt", "end"}
  BY DEF Pcs
<1>. HIDE DEF t, pc
<1>5. /\ task' \in [Workers -> Task] /\ Moves(w) /\ task'[w].pc = pc
      /\ pc # "end" => task'[w] = [t EXCEPT !.pc = pc]
      /\ pc = "end" => task'[w] = Ended(t.payment)
  BY <1>1, <1>3, <1>4, Continuing DEF IInv
<1>6. Shapes'
  BY <1>1, <1>5 DEF IInv, Shapes, store
<1>7. CASE pc = "end"
  BY <1>1, <1>5, <1>6, <1>7, QuietStep, EndIsGrounded DEF store
<1>8. CASE pc = "attempt"
  <2>1. /\ task'[w].pc = "attempt" /\ task'[w].kind = "process"
        /\ task'[w].payment \in Payments /\ task'[w].found = task'[w].payment
    BY <1>2, <1>3, <1>5, <1>8 DEF Task
  <2>2. charge'[w] = "none"
    BY <1>1 DEF Grounded, store
  <2>3. Grounded(w)'
    BY <2>1, <2>2 DEF Grounded
  <2>. QED BY <1>1, <1>5, <1>6, <2>3, QuietStep DEF store
<1>. QED BY <1>4, <1>7, <1>8

LEMMA CreateAttemptPreserves ==
    ASSUME IInv, NEW w \in Workers, CreateAttempt(w)
    PROVE  IInv'
<1>1. /\ task[w] \in Task /\ Grounded(w) /\ task[w].pc = "attempt"
      /\ Continue(w, task[w], "charge")
  BY DEF IInv, Shapes, CreateAttempt, Goto
<1>2. /\ task' \in [Workers -> Task] /\ Moves(w)
      /\ task'[w] = [task[w] EXCEPT !.pc = "charge"]
  BY <1>1, Continuing DEF IInv, Pcs
<1>3. Shapes'
  BY <1>2 DEF IInv, Shapes, CreateAttempt
<1>4. Grounded(w)'
  <2>1. charge'[w] = "none"
    BY <1>1 DEF Grounded, CreateAttempt
  <2>. QED BY <1>1, <1>2, <2>1 DEF Grounded, Task
<1>. QED BY <1>2, <1>3, <1>4, QuietStep DEF CreateAttempt

\* The provider takes the charge, and the request goes on or into its catch
\* block.
LEMMA ChargingPreserves ==
    ASSUME IInv, NEW w \in Workers, NEW pc \in {"record", "catch"},
           task[w].pc = "charge", charge' = [charge EXCEPT ![w] = NewCharge(w)],
           Goto(w, pc), faults' \in Nat,
           UNCHANGED <<payment, attempt, webhook, investment, deal, escrow, posted,
                       failing, interrupted>>
    PROVE  IInv'
<1>1. /\ task[w] \in Task /\ Grounded(w) /\ Continue(w, task[w], pc)
      /\ task[w].payment \in Payments /\ task[w].kind = "process"
      /\ task[w].found = task[w].payment
      /\ charge[w] = "none"
  BY DEF IInv, Shapes, Grounded, Goto
<1>2. /\ task' \in [Workers -> Task] /\ Moves(w)
      /\ task'[w] = [task[w] EXCEPT !.pc = pc]
  BY <1>1, Continuing DEF IInv, Pcs
<1>3. /\ charge'[w] \in {"open", "paid"}
      /\ task[w].payment \in Inline => charge'[w] = "paid"
      /\ \A v \in Workers \ {w} : charge'[v] = charge[v]
      /\ charge' \in [Workers -> {"none", "open", "paid", "declined", "refunded"}]
  BY DEF IInv, Shapes, NewCharge
<1>4. Shapes'
  BY <1>2, <1>3 DEF IInv, Shapes
<1>5. Onward
  <2>1. task'[w].pc # task[w].pc
    BY <1>1, <1>2 DEF Task
  <2>. QED BY <1>1, <1>2, <1>3, <2>1 DEF Onward, Moves
<1>6. Grounded(w)'
  BY <1>1, <1>2, <1>3 DEF Grounded, Task
<1>7. \A v \in Workers : Grounded(v)'
  BY <1>2, <1>4, <1>5, <1>6, OthersStayGrounded DEF Moves
<1>8. Charges'
  <2>1. \A v \in Workers \ {w} : task'[v] = task[v] /\ charge'[v] = charge[v]
    BY <1>2, <1>3 DEF Moves
  <2>2. /\ task'[w].pc # "idle"
        /\ task'[w].payment \in Inline => charge'[w] = "paid"
    BY <1>2, <1>3 DEF Moves
  <2>. QED BY <2>1, <2>2 DEF IInv, Charges
<1>9. References'
  BY <1>5, Keeping DEF IInv, References
<1>10. OnlyCollectedIsBooked'
  BY <1>5, Keeping DEF IInv, OnlyCollectedIsBooked
<1>. QED BY <1>4, <1>7, <1>8, <1>9, <1>10 DEF IInv

LEMMA ChargePreserves ==
    ASSUME IInv, NEW w \in Workers, Charge(w) \/ ChargeUnanswered(w)
    PROVE  IInv'
<1>1. /\ task[w].pc = "charge"
      /\ charge' = [charge EXCEPT ![w] = NewCharge(w)]
      /\ Goto(w, "record") \/ Goto(w, "catch")
      /\ faults' \in Nat
      /\ UNCHANGED <<payment, attempt, webhook, investment, deal, escrow, posted,
                     failing, interrupted>>
  BY ConfigurationAssumption DEF Charge, ChargeUnanswered, Fault, IInv, Shapes
<1>. QED BY <1>1, ChargingPreserves

LEMMA ChargeRejectedPreserves ==
    ASSUME IInv, NEW w \in Workers, ChargeRejected(w)
    PROVE  IInv'
<1>1. /\ task[w] \in Task /\ Grounded(w) /\ task[w].pc = "charge"
      /\ Continue(w, task[w], "rejected") /\ UNCHANGED <<store, faults, failing, interrupted>>
  BY DEF IInv, Shapes, ChargeRejected, Goto
<1>2. /\ task' \in [Workers -> Task] /\ Moves(w)
      /\ task'[w] = [task[w] EXCEPT !.pc = "rejected"]
  BY <1>1, Continuing DEF IInv, Pcs
<1>3. Shapes'
  BY <1>1, <1>2 DEF IInv, Shapes, store
<1>4. Grounded(w)'
  BY <1>1, <1>2 DEF Grounded, Task
<1>. QED BY <1>1, <1>2, <1>3, <1>4, QuietStep DEF store

\* The request goes on to fail its own payment.
LEMMA CaughtIsTask ==
    ASSUME IInv, NEW w \in Workers, task[w].pc \in {"rejected", "catch"}
    PROVE  /\ Caught(w) \in Task /\ Caught(w).payment = task[w].payment
           /\ Caught(w).found = task[w].payment /\ Caught(w).kind = "caught"
           /\ Caught(w).payment \in Payments
<1>1. task[w] \in Task /\ task[w].kind = "process" /\ task[w].payment \in Payments
  BY DEF IInv, Shapes, Grounded
<1>. QED BY <1>1 DEF Task, Caught

LEMMA CatchingPreserves ==
    ASSUME IInv, NEW w \in Workers, task[w].pc \in {"rejected", "catch"},
           Continue(w, Caught(w), "fail"),
           attempt' \in [Workers -> {"none", "PROCESSING", "COMPLETED", "FAILED"}],
           faults' \in Nat, interrupted' \subseteq Payments,
           UNCHANGED <<payment, charge, webhook, investment, deal, escrow, posted, failing>>
    PROVE  IInv'
<1>. DEFINE t == Caught(w)
<1>1. /\ task[w] \in Task /\ task[w].pc # "idle"
      /\ Continue(w, t, "fail")
  BY DEF IInv, Shapes
<1>2. /\ t \in Task /\ t.payment = task[w].payment /\ t.found = t.payment
      /\ t.kind = "caught" /\ t.payment \in Payments
  BY CaughtIsTask
<1>. HIDE DEF t
<1>3. /\ task' \in [Workers -> Task] /\ Moves(w)
      /\ task'[w] = [t EXCEPT !.pc = "fail"]
  BY <1>1, <1>2, Continuing DEF IInv, Pcs
<1>4. Shapes'
  BY <1>3 DEF IInv, Shapes
<1>5. Grounded(w)'
  BY <1>2, <1>3 DEF Grounded, Task
<1>. QED BY <1>3, <1>4, <1>5, QuietStep

LEMMA CatchErrorPreserves ==
    ASSUME IInv, NEW w \in Workers, CatchError(w)
    PROVE  IInv'
<1>1. attempt' \in [Workers -> {"none", "PROCESSING", "COMPLETED", "FAILED"}]
  BY DEF IInv, Shapes, CatchError
<1>. QED BY <1>1, CatchingPreserves DEF CatchError, IInv, Shapes

LEMMA FailPaymentPreserves ==
    ASSUME IInv, NEW w \in Workers, FailPayment(w)
    PROVE  IInv'
<1>. DEFINE p == task[w].found
            pc == IF task[w].kind = "webhook" THEN "mark" ELSE "end"
<1>1. /\ task[w] \in Task /\ Grounded(w) /\ task[w].pc = "fail"
      /\ Continue(w, task[w], pc)
      /\ p \in Payments
  BY DEF IInv, Shapes, FailPayment, Goto, Grounded
<1>2. pc \in Pcs \ {"idle"}
  BY DEF Pcs
<1>3. /\ task' \in [Workers -> Task] /\ Moves(w)
      /\ pc # "end" => task'[w] = [task[w] EXCEPT !.pc = pc]
      /\ pc = "end" => task'[w] = Ended(task[w].payment)
  <2>. HIDE DEF pc
  <2>. QED BY <1>1, <1>2, Continuing DEF IInv
<1>4. Shapes' /\ \A q \in Payments : payment'[q].ref = payment[q].ref
  <2>1. payment' \in [Payments -> Row] /\ \A q \in Payments : payment'[q].ref = payment[q].ref
    BY <1>1 DEF IInv, Shapes, FailPayment, Row
  <2>2. attempt' \in [Workers -> {"none", "PROCESSING", "COMPLETED", "FAILED"}]
    BY DEF IInv, Shapes, FailPayment, CloseAttempts
  <2>. QED BY <1>3, <2>1, <2>2 DEF IInv, Shapes, FailPayment
<1>5. Grounded(w)'
  <2>1. CASE task[w].kind = "webhook"
    BY <1>1, <1>3, <2>1 DEF Grounded, Task
  <2>2. CASE task[w].kind # "webhook"
    BY <1>3, <2>2, EndIsGrounded
  <2>. QED BY <2>1, <2>2
<1>. QED BY <1>3, <1>4, <1>5, QuietStep DEF FailPayment

\* A payment gets the reference of the charge just made for it.
LEMMA RecordReferencePreserves ==
    ASSUME IInv, NEW w \in Workers, RecordReference(w)
    PROVE  IInv'
<1>0. PICK p \in Payments : p = task[w].payment
  BY DEF IInv, Grounded, RecordReference
<1>. DEFINE t == IF p \in Inline THEN [task[w] EXCEPT !.event = InlineEvent(w)] ELSE task[w]
            pc == IF p \in Inline THEN "lookup" ELSE "reread"
<1>1. /\ task[w] \in Task /\ Grounded(w) /\ task[w].pc = "record"
      /\ Continue(w, t, pc)
      /\ payment' = [payment EXCEPT ![p] = [status |-> "PROCESSING", ref |-> w]]
      /\ task[w].found = p /\ task[w].kind = "process"
      /\ charge[w] # "none"
      /\ p \in Inline => charge[w] = "paid"
  BY <1>0 DEF IInv, Shapes, RecordReference, Goto, Grounded, Charges
<1>2. /\ t \in Task /\ t.payment = p /\ t.found = p /\ t.kind = "process"
      /\ p \in Inline => t.event = InlineEvent(w)
      /\ InlineEvent(w) \in Event /\ InlineEvent(w).charge = w
  BY <1>0, <1>1 DEF Task, InlineEvent, Event
<1>3. pc \in {"lookup", "reread"} /\ (pc = "lookup" <=> p \in Inline)
  OBVIOUS
<1>. HIDE DEF t, pc
<1>4. /\ task' \in [Workers -> Task] /\ Moves(w)
      /\ task'[w] = [t EXCEPT !.pc = pc]
  BY <1>0, <1>1, <1>2, <1>3, Continuing DEF IInv, Pcs
<1>5. /\ payment' \in [Payments -> Row]
      /\ payment'[p].ref = w
      /\ \A q \in Payments \ {p} : payment'[q] = payment[q]
  BY <1>1 DEF IInv, Shapes, Row
<1>6. Shapes'
  BY <1>4, <1>5 DEF IInv, Shapes, RecordReference
<1>7. Onward
  BY <1>4, <1>5 DEF IInv, Shapes, Onward, Moves, RecordReference
<1>8. Grounded(w)'
  <2>1. /\ task'[w].pc = pc /\ task'[w].kind = "process" /\ task'[w].event = t.event
        /\ task'[w].payment = p /\ task'[w].found = p
    BY <1>2, <1>4 DEF Task
  <2>2. CASE p \in Inline
    <3>1. charge'[w] = "paid" /\ task'[w].event.charge = w /\ task'[w].event \in Event
      BY <1>1, <1>2, <2>1, <2>2 DEF RecordReference
    <3>2. task'[w].pc = "lookup"
      BY <1>3, <2>1, <2>2
    <3>. QED BY <1>1, <2>1, <3>1, <3>2 DEF Grounded
  <2>3. CASE p \notin Inline
    <3>1. task'[w].pc = "reread"
      BY <1>3, <2>1, <2>3
    <3>. QED BY <1>1, <1>5, <2>1, <3>1 DEF Grounded
  <2>. QED BY <2>2, <2>3
<1>9. \A v \in Workers : Grounded(v)'
  BY <1>4, <1>6, <1>7, <1>8, OthersStayGrounded DEF Moves
<1>10. Charges'
  BY <1>4 DEF IInv, Charges, Moves, RecordReference
<1>11. References'
  <2>1. MadeFor(w, p)'
    BY <1>1, <1>2, <1>4 DEF MadeFor, Task, RecordReference
  <2>2. ASSUME NEW q \in Payments \ {p}, payment'[q].ref \in Workers
        PROVE  MadeFor(payment[q].ref, q)'
    <3>1. PICK r \in Workers : r = payment[q].ref
      BY <1>5, <2>2
    <3>2. MadeFor(r, q)'
      BY <1>7, <3>1, Keeping DEF IInv, References
    <3>3. payment'[q].ref = r
      BY <1>5, <3>1
    <3>. QED BY <3>2, <3>3
  <2>. QED BY <1>5, <2>1, <2>2 DEF References
<1>12. OnlyCollectedIsBooked'
  BY <1>7, Keeping DEF IInv, OnlyCollectedIsBooked, RecordReference
<1>. QED BY <1>6, <1>9, <1>10, <1>11, <1>12 DEF IInv

----------------------------------------------------------------------------
(***************************************************************************)
(* handleWebhook.                                                          *)
(***************************************************************************)
LEMMA LookUpEventPreserves ==
    ASSUME IInv, NEW w \in Workers, LookUpEvent(w)
    PROVE  IInv'
<1>1. /\ task[w] \in Task /\ Grounded(w) /\ task[w].pc = "lookup"
      /\ UNCHANGED <<store, faults, failing, interrupted>>
      /\ task[w].event \in Event
  BY DEF IInv, Shapes, LookUpEvent, Grounded
<1>2. CASE webhook[task[w].event] # "none"
  <2>1. Goto(w, "end")
    BY <1>2 DEF LookUpEvent
  <2>. QED BY <1>1, <2>1, QuietEnd DEF IInv, Shapes, store
<1>3. ASSUME NEW p \in Payments \cup {NoPayment}, NEW s \in Row \cup {NoPayment},
             Continue(w, [task[w] EXCEPT !.found = p, !.seen = s], "store"),
             p # NoPayment => p \in Payments /\ s = payment[p] /\ payment[p].ref = task[w].event.charge
      PROVE  IInv'
  <2>. DEFINE t == [task[w] EXCEPT !.found = p, !.seen = s]
  <2>1. /\ t \in Task /\ t.payment = task[w].payment /\ t.found = p /\ t.seen = s
        /\ t.event = task[w].event /\ t.kind = task[w].kind
    BY <1>1 DEF Task
  <2>2. Continue(w, t, "store")
    BY <1>3
  <2>. HIDE DEF t
  <2>3. /\ task' \in [Workers -> Task] /\ Moves(w)
        /\ task'[w] = [t EXCEPT !.pc = "store"]
    BY <1>1, <2>1, <2>2, Continuing DEF IInv, Pcs
  <2>4. Shapes'
    BY <1>1, <2>3 DEF IInv, Shapes, store
  <2>5. task'[w].pc = "store" /\ task'[w].payment = task[w].payment /\ task'[w].found = p
        /\ task'[w].seen = s /\ task'[w].event = task[w].event /\ task'[w].kind = task[w].kind
    BY <2>1, <2>3 DEF Task
  <2>6. PICK r \in Workers : r = task[w].event.charge
    BY <1>1 DEF Event
  <2>7. Onward /\ p # NoPayment => MadeFor(r, p)' /\ s \in Row
    BY <1>3, <2>6, Keeping DEF IInv, References, Shapes
  <2>8. Onward => Grounded(w)'
    BY <1>1, <2>5, <2>6, <2>7 DEF Grounded, store
  <2>. QED BY <1>1, <2>3, <2>4, <2>8, QuietStep DEF store
<1>4. CASE webhook[task[w].event] = "none"
  <2>. DEFINE found == {q \in Payments : payment[q].ref = task[w].event.charge}
  <2>1. PICK p \in IF found = {} THEN {NoPayment} ELSE found :
          Continue(w, [task[w] EXCEPT
             !.found = p, !.seen = IF p = NoPayment THEN NoPayment ELSE payment[p]], "store")
    BY <1>4 DEF LookUpEvent
  <2>2. p # NoPayment => p \in Payments /\ payment[p].ref = task[w].event.charge
    OBVIOUS
  <2>. QED BY <1>3, <2>1, <2>2 DEF IInv, Shapes
<1>. QED BY <1>2, <1>4

\* Where an event of a known payment leads.
LEMMA StoreEventPreserves ==
    ASSUME IInv, NEW w \in Workers, StoreEvent(w)
    PROVE  IInv'
<1>. DEFINE pc == IF webhook[task[w].event] = "none" THEN EventStep(w) ELSE Thrown(w)
<1>1. /\ task[w] \in Task /\ Grounded(w) /\ task[w].pc = "store"
      /\ Continue(w, task[w], pc)
      /\ UNCHANGED <<payment, attempt, charge, investment, deal, escrow, posted, faults, failing, interrupted>>
      /\ webhook' \in [Event -> {"none", "stored", "processed"}]
      /\ task[w].event \in Event
  BY DEF IInv, Shapes, StoreEvent, Goto, Grounded
<1>2. /\ pc \in {"mark", "fail", "refund", "settle", "catch", "end"}
      /\ pc = "catch" => task[w].kind = "process"
      /\ pc \in {"fail", "refund", "settle"} => task[w].found \in Payments
      /\ pc = "settle" => task[w].event.type = "SUCCEEDED"
  BY <1>1, ConfigurationAssumption
  DEF Thrown, EventStep, Finalize, Returned, Grounded, Task, Event
<1>. HIDE DEF pc
<1>3. /\ task' \in [Workers -> Task] /\ Moves(w)
      /\ pc # "end" => task'[w] = [task[w] EXCEPT !.pc = pc]
      /\ pc = "end" => task'[w] = Ended(task[w].payment)
  BY <1>1, <1>2, Continuing DEF IInv, Pcs
<1>4. Shapes'
  BY <1>1, <1>3 DEF IInv, Shapes
<1>5. Onward => Grounded(w)'
  <2>1. CASE pc = "end"
    BY <1>3, <2>1, EndIsGrounded
  <2>2. ASSUME pc # "end", Onward PROVE Grounded(w)'
    <3>1. task'[w].pc = pc /\ task'[w].payment = task[w].payment
          /\ task'[w].found = task[w].found /\ task'[w].event = task[w].event
          /\ task'[w].kind = task[w].kind
      BY <1>1, <1>3, <2>2 DEF Task
    <3>2. pc = "settle" => CollectedFor(task[w].found)
      <4>1. pc = "settle" =>
              /\ MadeFor(task[w].event.charge, task[w].found)
              /\ charge[task[w].event.charge] \in {"paid", "refunded"}
              /\ task[w].event.charge \in Workers
        BY <1>1, <1>2, ConfigurationAssumption DEF Grounded, Event
      <4>. QED BY <4>1 DEF CollectedFor, MadeFor
    <3>3. PICK p \in Payments \cup {NoPayment} : p = task[w].found
      BY <1>1 DEF Task
    <3>4. pc = "settle" => CollectedFor(p)'
      BY <2>2, <3>2, <3>3, Keeping
    <3>. QED BY <1>1, <1>2, <3>1, <3>3, <3>4 DEF Grounded
  <2>. QED BY <2>1, <2>2
<1>. QED BY <1>1, <1>3, <1>4, <1>5, QuietStep

LEMMA RefundEventPreserves ==
    ASSUME IInv, NEW w \in Workers, RefundEvent(w)
    PROVE  IInv'
<1>1. /\ task[w] \in Task /\ Grounded(w) /\ task[w].pc = "refund"
      /\ Continue(w, task[w], "mark") /\ task[w].found \in Payments
  BY DEF IInv, Shapes, RefundEvent, Goto, Grounded
<1>2. /\ task' \in [Workers -> Task] /\ Moves(w)
      /\ task'[w] = [task[w] EXCEPT !.pc = "mark"]
  BY <1>1, Continuing DEF IInv, Pcs
<1>3. /\ payment' \in [Payments -> Row]
      /\ \A p \in Payments : payment'[p].ref = payment[p].ref
  BY <1>1 DEF IInv, Shapes, RefundEvent, Row
<1>4. Shapes'
  BY <1>2, <1>3 DEF IInv, Shapes, RefundEvent
<1>5. Grounded(w)'
  BY <1>1, <1>2 DEF Grounded, Task
<1>. QED BY <1>2, <1>3, <1>4, <1>5, QuietStep DEF RefundEvent

LEMMA MarkProcessedPreserves ==
    ASSUME IInv, NEW w \in Workers, MarkProcessed(w)
    PROVE  IInv'
<1>1. webhook' \in [Event -> {"none", "stored", "processed"}]
  BY DEF IInv, Shapes, MarkProcessed
<1>. QED BY <1>1, QuietEnd DEF MarkProcessed, IInv, Shapes

----------------------------------------------------------------------------
(***************************************************************************)
(* verifyPayment, and the question of reconcilePayments.                   *)
(***************************************************************************)
LEMMA RereadPreserves ==
    ASSUME IInv, NEW w \in Workers, Reread(w)
    PROVE  IInv'
<1>0. PICK p \in Payments : p = task[w].payment
  BY DEF IInv, Grounded, Reread
<1>. DEFINE t == [task[w] EXCEPT !.seen = payment[p]]
<1>1. /\ task[w] \in Task /\ Grounded(w) /\ task[w].pc = "reread"
      /\ Continue(w, t, "end") \/ Continue(w, t, "ask")
      /\ UNCHANGED <<store, faults, failing, interrupted>>
  BY <1>0 DEF IInv, Shapes, Reread
<1>2. task[w].found = p /\ payment[p] \in Row /\ payment[p].ref \in Workers
  BY <1>0, <1>1 DEF IInv, Shapes, Grounded
<1>3. /\ t \in Task /\ t.payment = p /\ t.found = p /\ t.seen = payment[p]
      /\ t.kind = task[w].kind
  BY <1>0, <1>1, <1>2 DEF Task
<1>. HIDE DEF t
<1>4. CASE Continue(w, t, "end")
  <2>1. /\ task' \in [Workers -> Task] /\ Moves(w)
        /\ task'[w] = Ended(t.payment)
    BY <1>0, <1>1, <1>3, <1>4, Continuing DEF IInv, Pcs
  <2>2. Shapes'
    BY <1>1, <2>1 DEF IInv, Shapes, store
  <2>. QED BY <1>1, <2>1, <2>2, QuietStep, EndIsGrounded DEF store
<1>5. CASE Continue(w, t, "ask")
  <2>1. /\ task' \in [Workers -> Task] /\ Moves(w)
        /\ task'[w] = [t EXCEPT !.pc = "ask"]
    BY <1>0, <1>1, <1>3, <1>5, Continuing DEF IInv, Pcs
  <2>2. Shapes'
    BY <1>1, <2>1 DEF IInv, Shapes, store
  <2>3. /\ task'[w].pc = "ask" /\ task'[w].payment = p /\ task'[w].found = p
        /\ task'[w].seen = payment[p] /\ task'[w].kind = task[w].kind
        /\ task'[w].event = t.event
    BY <1>3, <2>1 DEF Task
  <2>4. PICK r \in Workers : r = payment[p].ref
    BY <1>2
  <2>5. Onward => MadeFor(r, p)'
    BY <2>4, Keeping DEF IInv, References
  <2>6. t.event = task[w].event
    BY <1>1 DEF Task, t
  <2>7. Onward => Grounded(w)'
    BY <1>1, <1>2, <2>3, <2>4, <2>5, <2>6 DEF Grounded
  <2>. QED BY <1>1, <2>1, <2>2, <2>7, QuietStep DEF store
<1>. QED BY <1>1, <1>4, <1>5

LEMMA AskPreserves ==
    ASSUME IInv, NEW w \in Workers, Ask(w)
    PROVE  IInv'
<1>. DEFINE pc == CASE Collected(task[w].seen.ref) -> Finalize(w, task[w].seen)
                    [] charge[task[w].seen.ref] = "declined" -> "fail"
                    [] OTHER -> "end"
<1>1. /\ task[w] \in Task /\ Grounded(w) /\ task[w].pc = "ask"
      /\ Continue(w, task[w], pc) /\ UNCHANGED <<store, faults, failing, interrupted>>
      /\ task[w].found \in Payments
      /\ task[w].seen.ref \in Workers /\ MadeFor(task[w].seen.ref, task[w].found)
  BY DEF IInv, Shapes, Ask, Goto, Grounded
<1>2. /\ pc \in {"mark", "fail", "settle", "end"}
      /\ pc = "settle" => charge[task[w].seen.ref] = "paid"
      /\ pc = "mark" => task[w].event \in Event
  BY <1>1 DEF Collected, Finalize, Returned, Task
<1>. HIDE DEF pc
<1>3. /\ task' \in [Workers -> Task] /\ Moves(w)
      /\ pc # "end" => task'[w] = [task[w] EXCEPT !.pc = pc]
      /\ pc = "end" => task'[w] = Ended(task[w].payment)
  BY <1>1, <1>2, Continuing DEF IInv, Pcs
<1>4. Shapes'
  BY <1>1, <1>3 DEF IInv, Shapes, store
<1>5. Onward => Grounded(w)'
  <2>1. CASE pc = "end"
    BY <1>3, <2>1, EndIsGrounded
  <2>2. ASSUME pc # "end", Onward PROVE Grounded(w)'
    <3>1. task'[w].pc = pc /\ task'[w].payment = task[w].payment
          /\ task'[w].found = task[w].found /\ task'[w].event = task[w].event
          /\ task'[w].kind = task[w].kind
      BY <1>1, <1>3, <2>2 DEF Task
    <3>2. pc = "settle" => CollectedFor(task[w].found)
      BY <1>1, <1>2 DEF CollectedFor, MadeFor
    <3>3. PICK p \in Payments : p = task[w].found
      BY <1>1
    <3>4. pc = "settle" => CollectedFor(p)'
      BY <2>2, <3>2, <3>3, Keeping
    <3>. QED BY <1>1, <1>2, <3>1, <3>3, <3>4 DEF Grounded
  <2>. QED BY <2>1, <2>2
<1>. QED BY <1>1, <1>3, <1>4, <1>5, QuietStep DEF store

----------------------------------------------------------------------------
(***************************************************************************)
(* finalizePayment and confirm.                                            *)
(***************************************************************************)
LEMMA SettlePreserves ==
    ASSUME IInv, NEW w \in Workers, Settle(w)
    PROVE  IInv'
<1>0. PICK p \in Payments : p = task[w].found
  BY DEF IInv, Grounded, Settle
<1>. DEFINE pc == AfterSettlement(w, p)
            k == <<"settlement", p>>
<1>1. /\ task[w] \in Task /\ Grounded(w) /\ task[w].pc = "settle"
      /\ CollectedFor(p)
      /\ Continue(w, task[w], pc)
      /\ payment' = [payment EXCEPT ![p].status = "COMPLETED"]
      /\ attempt' = CloseAttempts(p, "COMPLETED")
      /\ posted' = Post(k)
      /\ UNCHANGED <<charge, webhook, investment, deal, escrow, faults, failing, interrupted>>
  BY <1>0 DEF IInv, Shapes, Settle, Goto, Grounded
<1>2. /\ pc \in {"confirm", "mark", "end"}
      /\ pc = "confirm" => InvestmentOf[p] \in Investments
      /\ pc = "mark" => task[w].event \in Event
  BY <1>1, ConfigurationAssumption DEF AfterSettlement, Returned, Task
<1>3. /\ posted' \in [Keys -> Nat]
      /\ posted'[k] > 0
      /\ \A j \in Keys : posted[j] > 0 => posted'[j] > 0
      /\ \A j \in Keys \ {k} : posted'[j] = posted[j]
  BY <1>1, SettlementKeys DEF IInv, Shapes, Post
<1>4. /\ payment' \in [Payments -> Row]
      /\ \A q \in Payments : payment'[q].ref = payment[q].ref
  BY <1>1 DEF IInv, Shapes, Row
<1>. HIDE DEF pc
<1>5. /\ task' \in [Workers -> Task] /\ Moves(w)
      /\ pc # "end" => task'[w] = [task[w] EXCEPT !.pc = pc]
      /\ pc = "end" => task'[w] = Ended(task[w].payment)
  BY <1>1, <1>2, Continuing DEF IInv, Pcs
<1>6. Shapes'
  <2>1. attempt' \in [Workers -> {"none", "PROCESSING", "COMPLETED", "FAILED"}]
    BY <1>1 DEF IInv, Shapes, CloseAttempts
  <2>. QED BY <1>1, <1>3, <1>4, <1>5, <2>1 DEF IInv, Shapes
<1>7. Onward
  BY <1>1, <1>3, <1>4, <1>5 DEF IInv, Shapes, Onward, Moves
<1>8. Grounded(w)'
  <2>1. CASE pc = "end"
    BY <1>5, <2>1, EndIsGrounded
  <2>2. CASE pc # "end"
    <3>1. task'[w].pc = pc /\ task'[w].payment = task[w].payment
          /\ task'[w].found = p /\ task'[w].event = task[w].event
          /\ task'[w].kind = task[w].kind
      BY <1>0, <1>1, <1>5, <2>2 DEF Task
    <3>. QED BY <1>1, <1>2, <1>3, <2>2, <3>1 DEF Grounded
  <2>. QED BY <2>1, <2>2
<1>9. \A v \in Workers : Grounded(v)'
  BY <1>5, <1>6, <1>7, <1>8, OthersStayGrounded DEF Moves
<1>10. Charges'
  BY <1>1, <1>5 DEF IInv, Charges, Moves
<1>11. References'
  BY <1>4, <1>7, Keeping DEF IInv, References
<1>12. OnlyCollectedIsBooked'
  <2>1. ASSUME NEW q \in Payments, posted'[<<"settlement", q>>] > 0
        PROVE  CollectedFor(q)'
    <3>1. CASE q = p
      BY <1>1, <1>7, <3>1, Keeping
    <3>2. CASE q # p
      <4>1. posted[<<"settlement", q>>] > 0
        BY <1>3, <2>1, <3>2, SettlementKeys
      <4>. QED BY <1>7, <4>1, Keeping DEF IInv, OnlyCollectedIsBooked
    <3>. QED BY <3>1, <3>2
  <2>2. ASSUME NEW i \in Investments, investment'[i] = "CONFIRMED"
        PROVE  \E q \in Payments : InvestmentOf[q] = i /\ posted'[<<"settlement", q>>] > 0
    BY <1>1, <1>3, <2>2, SettlementKeys DEF IInv, OnlyCollectedIsBooked
  <2>. QED BY <2>1, <2>2 DEF OnlyCollectedIsBooked
<1>. QED BY <1>6, <1>9, <1>10, <1>11, <1>12 DEF IInv

LEMMA ReadInvestmentPreserves ==
    ASSUME IInv, NEW w \in Workers, ReadInvestment(w)
    PROVE  IInv'
<1>. DEFINE pc == ConfirmStep(w, investment[InvestmentOf[task[w].found]])
<1>1. /\ task[w] \in Task /\ Grounded(w) /\ task[w].pc = "confirm"
      /\ Continue(w, task[w], pc) /\ UNCHANGED <<store, faults, failing, interrupted>>
      /\ task[w].found \in Payments /\ InvestmentOf[task[w].found] \in Investments
  BY DEF IInv, Shapes, ReadInvestment, Grounded, Goto
<1>2. /\ pc \in {"mark", "catch", "include", "end"}
      /\ pc = "mark" => task[w].event \in Event
      /\ pc = "catch" => task[w].kind = "process"
  BY <1>1 DEF IInv, Shapes, ConfirmStep, Returned, Thrown, Task
<1>. HIDE DEF pc
<1>3. /\ task' \in [Workers -> Task] /\ Moves(w)
      /\ pc # "end" => task'[w] = [task[w] EXCEPT !.pc = pc]
      /\ pc = "end" => task'[w] = Ended(task[w].payment)
  BY <1>1, <1>2, Continuing DEF IInv, Pcs
<1>4. Shapes'
  BY <1>1, <1>3 DEF IInv, Shapes, store
<1>5. Grounded(w)'
  <2>1. CASE pc = "end"
    BY <1>3, <2>1, EndIsGrounded
  <2>2. CASE pc # "end"
    <3>1. task'[w].pc = pc /\ task'[w].payment = task[w].payment
          /\ task'[w].found = task[w].found /\ task'[w].event = task[w].event
          /\ task'[w].kind = task[w].kind
      BY <1>1, <1>3, <2>2 DEF Task
    <3>. QED BY <1>1, <1>2, <2>2, <3>1 DEF Grounded, store
  <2>. QED BY <2>1, <2>2
<1>. QED BY <1>1, <1>3, <1>4, <1>5, QuietStep DEF store

LEMMA ReadDealPreserves ==
    ASSUME IInv, NEW w \in Workers, ReadDeal(w)
    PROVE  IInv'
<1>. DEFINE t == [task[w] EXCEPT !.total = deal.total]
<1>1. /\ task[w] \in Task /\ Grounded(w) /\ task[w].pc = "include"
      /\ Continue(w, t, "book") /\ UNCHANGED <<store, faults, failing, interrupted>>
  BY DEF IInv, Shapes, ReadDeal
<1>2. /\ t \in Task /\ t.payment = task[w].payment /\ t.found = task[w].found
      /\ t.kind = task[w].kind /\ t.event = task[w].event
  BY <1>1 DEF IInv, Shapes, Task
<1>. HIDE DEF t
<1>3. /\ task' \in [Workers -> Task] /\ Moves(w)
      /\ task'[w] = [t EXCEPT !.pc = "book"]
  BY <1>1, <1>2, Continuing DEF IInv, Pcs
<1>4. Shapes'
  BY <1>1, <1>3 DEF IInv, Shapes, store
<1>5. Grounded(w)'
  <2>1. task'[w].pc = "book" /\ task'[w].payment = task[w].payment
        /\ task'[w].found = task[w].found /\ task'[w].kind = task[w].kind
        /\ task'[w].event = task[w].event
    BY <1>2, <1>3 DEF Task
  <2>2. posted' = posted
    BY <1>1 DEF store
  <2>. QED BY <1>1, <2>1, <2>2 DEF Grounded
<1>. QED BY <1>1, <1>3, <1>4, <1>5, QuietStep DEF store

\* An investment becomes CONFIRMED on the settlement the request has seen.
LEMMA BookInvestmentPreserves ==
    ASSUME IInv, NEW w \in Workers, BookInvestment(w)
    PROVE  IInv'
<1>0. PICK i \in Investments, p \in Payments :
        p = task[w].found /\ i = InvestmentOf[p] /\ posted[<<"settlement", p>>] > 0
  BY DEF IInv, Grounded, BookInvestment
<1>. DEFINE pc == Returned(w)
            k == <<"confirm", i>>
            total == NewTotal(w, i)
<1>1. /\ task[w] \in Task /\ Grounded(w) /\ task[w].pc = "book"
      /\ Continue(w, task[w], pc)
      /\ investment' = [investment EXCEPT ![i] = "CONFIRMED"]
      /\ deal' = [total |-> total, funded |-> deal.funded \/ total >= Target]
      /\ posted' = Post(k)
      /\ escrow' = Deposited(i)
      /\ UNCHANGED <<payment, attempt, charge, webhook, faults, failing, interrupted>>
  BY <1>0 DEF IInv, Shapes, BookInvestment, Goto
<1>2. pc \in {"mark", "end"} /\ (pc = "mark" => task[w].event \in Event)
  BY <1>1 DEF Returned, Task
<1>3. /\ posted' \in [Keys -> Nat]
      /\ \A j \in Keys : posted[j] > 0 => posted'[j] > 0
      /\ \A j \in Keys \ {k} : posted'[j] = posted[j]
  BY <1>1, SettlementKeys DEF IInv, Shapes, Post
<1>4. /\ deal' \in [total : Nat, funded : BOOLEAN]
      /\ escrow' \in Nat
  <2>1. Amount[i] \in Nat /\ task[w].total \in Nat /\ escrow \in Nat
    BY <1>1, ConfigurationAssumption DEF Task, IInv, Shapes
  <2>2. total \in Nat
    BY <2>1 DEF NewTotal
  <2>3. (deal.funded \/ total >= Target) \in BOOLEAN
    BY <2>2, ConfigurationAssumption DEF IInv, Shapes
  <2>. HIDE DEF total
  <2>. QED BY <1>1, <2>1, <2>2, <2>3 DEF Deposited
<1>. HIDE DEF pc
<1>5. /\ task' \in [Workers -> Task] /\ Moves(w)
      /\ pc # "end" => task'[w] = [task[w] EXCEPT !.pc = pc]
      /\ pc = "end" => task'[w] = Ended(task[w].payment)
  BY <1>1, <1>2, Continuing DEF IInv, Pcs
<1>6. Shapes'
  BY <1>1, <1>3, <1>4, <1>5 DEF IInv, Shapes
<1>7. Onward
  BY <1>1, <1>3, <1>5 DEF IInv, Shapes, Onward, Moves
<1>8. Grounded(w)'
  <2>1. CASE pc = "end"
    BY <1>5, <2>1, EndIsGrounded
  <2>2. CASE pc # "end"
    BY <1>1, <1>2, <1>5, <2>2 DEF Grounded, Task
  <2>. QED BY <2>1, <2>2
<1>9. \A v \in Workers : Grounded(v)'
  BY <1>5, <1>6, <1>7, <1>8, OthersStayGrounded DEF Moves
<1>10. Charges'
  BY <1>1, <1>5 DEF IInv, Charges, Moves
<1>11. References'
  BY <1>1, <1>7, Keeping DEF IInv, References
<1>12. OnlyCollectedIsBooked'
  <2>1. ASSUME NEW q \in Payments, posted'[<<"settlement", q>>] > 0
        PROVE  CollectedFor(q)'
    <3>1. posted[<<"settlement", q>>] > 0
      BY <1>3, <2>1, SettlementKeys
    <3>. QED BY <1>7, <3>1, Keeping DEF IInv, OnlyCollectedIsBooked
  <2>2. ASSUME NEW j \in Investments, investment'[j] = "CONFIRMED"
        PROVE  \E q \in Payments : InvestmentOf[q] = j /\ posted'[<<"settlement", q>>] > 0
    <3>1. PICK q \in Payments : InvestmentOf[q] = j /\ posted[<<"settlement", q>>] > 0
      BY <1>0, <1>1, <2>2 DEF IInv, Shapes, OnlyCollectedIsBooked
    <3>. QED BY <1>3, <3>1, SettlementKeys
  <2>. QED BY <2>1, <2>2 DEF OnlyCollectedIsBooked
<1>. QED BY <1>6, <1>9, <1>10, <1>11, <1>12 DEF IInv

----------------------------------------------------------------------------
(***************************************************************************)
(* The surroundings.                                                       *)
(***************************************************************************)
LEMMA CollectPreserves ==
    ASSUME IInv, NEW w \in Workers, NEW o \in {"paid", "declined", "refunded"},
           Collect(w, o)
    PROVE  IInv'
<1>1. /\ charge' \in [Workers -> {"none", "open", "paid", "declined", "refunded"}]
      /\ \A v \in Workers \ {w} : charge'[v] = charge[v]
      /\ charge'[w] = o
      /\ charge[w] \in {"open", "paid"}
      /\ charge[w] = "paid" => o = "refunded"
      /\ task[w].payment \notin Inline
      /\ UNCHANGED <<payment, attempt, webhook, investment, deal, escrow, posted, task,
                     faults, failing, interrupted>>
  BY DEF IInv, Shapes, Collect
<1>2. Shapes'
  BY <1>1 DEF IInv, Shapes
<1>3. Onward
  BY <1>1 DEF Onward
<1>4. \A v \in Workers : Grounded(v)'
  BY <1>1, <1>2, <1>3, OthersStayGrounded
<1>5. Charges'
  BY <1>1 DEF IInv, Charges
<1>6. References'
  BY <1>1, <1>3, Keeping DEF IInv, References
<1>7. OnlyCollectedIsBooked'
  BY <1>1, <1>3, Keeping DEF IInv, OnlyCollectedIsBooked
<1>. QED BY <1>2, <1>4, <1>5, <1>6, <1>7 DEF IInv

LEMMA FailInvestmentPreserves ==
    ASSUME IInv, NEW i \in Investments, FailInvestment(i)
    PROVE  IInv'
<1>1. Shapes'
  BY DEF IInv, Shapes, FailInvestment
<1>2. Onward
  BY DEF Onward, FailInvestment
<1>3. \A v \in Workers : Grounded(v)'
  BY <1>1, <1>2, OthersStayGrounded DEF FailInvestment
<1>4. Charges'
  BY DEF IInv, Charges, FailInvestment
<1>5. References'
  BY <1>2, Keeping DEF IInv, References, FailInvestment
<1>6. OnlyCollectedIsBooked'
  <2>1. \A j \in Investments : investment'[j] = "CONFIRMED" => investment[j] = "CONFIRMED"
    BY DEF IInv, Shapes, FailInvestment
  <2>. QED BY <1>2, <2>1, Keeping DEF IInv, OnlyCollectedIsBooked, FailInvestment
<1>. QED BY <1>1, <1>3, <1>4, <1>5, <1>6 DEF IInv

LEMMA FindPendingPreserves ==
    ASSUME IInv, NEW i \in Investments, FindPending(i)
    PROVE  IInv'
<1>1. Shapes'
  BY DEF IInv, Shapes, FindPending, store
<1>2. Onward
  BY DEF Onward, FindPending, store
<1>3. \A v \in Workers : Grounded(v)'
  BY <1>1, <1>2, OthersStayGrounded DEF FindPending
<1>4. Charges' /\ References' /\ OnlyCollectedIsBooked'
  BY <1>2, Keeping DEF IInv, Charges, References, OnlyCollectedIsBooked, FindPending, store
<1>. QED BY <1>1, <1>3, <1>4 DEF IInv

LEMMA FaultIsCounted ==
    ASSUME Shapes, Fault
    PROVE  faults' \in Nat
  BY ConfigurationAssumption DEF Shapes, Fault

LEMMA InterruptedArePayments ==
    ASSUME IInv, NEW w \in Workers, Interrupt(w)
    PROVE  interrupted' \subseteq Payments
<1>1. task[w].pc \in {"confirm", "include", "book"} => task[w].found \in Payments
  BY DEF IInv, Grounded
<1>2. interrupted \subseteq Payments
  BY DEF IInv, Shapes
<1>. QED BY <1>1, <1>2 DEF Interrupt

LEMMA DiePreserves ==
    ASSUME IInv, NEW w \in Workers, Die(w)
    PROVE  IInv'
<1>1. task[w].pc # "idle" /\ Goto(w, "end") /\ UNCHANGED <<store, failing>>
  BY DEF Die, Busy
<1>2. faults' \in Nat /\ interrupted' \subseteq Payments
  BY FaultIsCounted, InterruptedArePayments DEF IInv, Die
<1>. QED BY <1>1, <1>2, QuietEnd DEF IInv, Shapes, store

LEMMA ThrowPreserves ==
    ASSUME IInv, NEW w \in Workers, Throw(w)
    PROVE  IInv'
<1>1. /\ task[w].pc \notin {"idle", "end"} /\ UNCHANGED <<store, failing>>
      /\ Continue(w, IF task[w].pc = "catch" THEN Caught(w) ELSE task[w], Thrown(w))
      /\ task[w] \in Task /\ Grounded(w)
      /\ faults' \in Nat /\ interrupted' \subseteq Payments
  BY FaultIsCounted, InterruptedArePayments DEF IInv, Shapes, Throw, Busy
<1>2. CASE task[w].pc = "catch"
  <2>1. Continue(w, Caught(w), "fail")
    BY <1>1, <1>2 DEF Thrown
  <2>. QED BY <1>1, <1>2, <2>1, CatchingPreserves DEF store, IInv, Shapes
<1>3. CASE task[w].pc \notin {"load", "attempt", "catch"} /\ task[w].kind = "process"
  <2>1. Continue(w, task[w], "catch")
    BY <1>1, <1>3 DEF Thrown
  <2>2. /\ task' \in [Workers -> Task] /\ Moves(w)
        /\ task'[w] = [task[w] EXCEPT !.pc = "catch"]
    BY <1>1, <2>1, Continuing DEF IInv, Pcs
  <2>3. Shapes'
    BY <1>1, <2>2 DEF IInv, Shapes, store
  <2>4. Grounded(w)'
    BY <1>1, <1>3, <2>2 DEF Grounded, Task
  <2>. QED BY <1>1, <2>2, <2>3, <2>4, QuietStep DEF store
<1>4. CASE task[w].pc # "catch" /\ (task[w].pc \in {"load", "attempt"} \/ task[w].kind # "process")
  <2>1. Goto(w, "end")
    BY <1>1, <1>4 DEF Thrown, Goto
  <2>. QED BY <1>1, <2>1, QuietEnd DEF IInv, Shapes, store
<1>. QED BY <1>2, <1>3, <1>4

LEMMA StutterPreserves ==
    ASSUME IInv, UNCHANGED vars
    PROVE  IInv'
<1>. USE DEF vars, store
<1>1. Shapes' /\ Charges' /\ References' /\ OnlyCollectedIsBooked'
  BY DEF IInv, Shapes, Charges, References, OnlyCollectedIsBooked, MadeFor, CollectedFor
<1>2. \A v \in Workers : Grounded(v)'
  BY DEF IInv, Grounded, MadeFor, CollectedFor
<1>. QED BY <1>1, <1>2 DEF IInv

----------------------------------------------------------------------------
(***************************************************************************)
(* The invariant and what follows from it.                                 *)
(***************************************************************************)
LEMMA InitIsInductive == Init => IInv
<1>. SUFFICES ASSUME Init PROVE IInv
  OBVIOUS
<1>1. Idle \in Task
  BY DEF Idle, Task, Pcs
<1>2. Shapes
  BY <1>1, ConfigurationAssumption DEF Init, Shapes, Row
<1>3. Charges /\ References
  BY ConfigurationAssumption DEF Init, Charges, References
<1>4. \A w \in Workers : Grounded(w)
  BY DEF Init, Grounded, Idle
<1>5. OnlyCollectedIsBooked
  BY SettlementKeys DEF Init, OnlyCollectedIsBooked
<1>. QED BY <1>2, <1>3, <1>4, <1>5 DEF IInv

LEMMA WorkPreserves ==
    ASSUME IInv, NEW w \in Workers, Work(w)
    PROVE  IInv'
  BY LoadPreserves, CreateAttemptPreserves, ChargePreserves, ChargeRejectedPreserves,
     RecordReferencePreserves, CatchErrorPreserves, FailPaymentPreserves,
     LookUpEventPreserves, StoreEventPreserves, RefundEventPreserves,
     MarkProcessedPreserves, RereadPreserves, AskPreserves, SettlePreserves,
     ReadInvestmentPreserves, ReadDealPreserves, BookInvestmentPreserves DEF Work

LEMMA StepPreserves == IInv /\ [Step]_vars => IInv'
  BY WorkPreserves, CreatePaymentPreserves, RequestProcessPreserves, ReconcilePreserves,
     DeliverPreserves, CollectPreserves, FindPendingPreserves, FailInvestmentPreserves,
     DiePreserves, ThrowPreserves, ChargePreserves, StutterPreserves DEF Step

\* The traffic is chosen at the start; no step depends on what it becomes.
LEMMA NextIsStep == [Next]_vars => [Step]_vars /\ traffic' = traffic
  BY DEF Next, vars

LEMMA TrafficStays == Spec => [](traffic \in Traffics)
<1>1. Init => traffic \in Traffics
  BY DEF Init
<1>2. traffic \in Traffics /\ [Next]_vars => (traffic \in Traffics)'
  BY NextIsStep
<1>. QED BY <1>1, <1>2, PTL DEF Spec

THEOREM Invariance == Spec => []IInv
  BY InitIsInductive, NextIsStep, StepPreserves, PTL DEF Spec

\* Every table row, request and event is in a state the code can put it in, and
\* a request only acts on a payment or an event it has (PaymentsService).
THEOREM TypeCorrect == Spec => []TypeOK
<1>1. ASSUME IInv, NEW w \in Workers
      PROVE  /\ task[w].pc \in Pcs
             /\ task[w].pc \in {"settle", "confirm", "include", "book", "fail", "refund"} =>
                   task[w].found \in Payments
             /\ task[w].pc \in {"lookup", "store", "mark"} => task[w].event \in Event
  BY <1>1 DEF IInv, Shapes, Task, Grounded
<1>2. IInv /\ traffic \in Traffics => TypeOK
  BY <1>1 DEF IInv, Shapes, Row, Pcs, TypeOK
<1>. QED BY <1>2, Invariance, TrafficStays, PTL

\* finalizePayment and confirm: whatever reads they act on, only money collected
\* for that very payment is booked, and an investment is confirmed on it.
THEOREM OnlyCollectedMoney == Spec => []OnlyCollectedIsBooked
<1>1. IInv => OnlyCollectedIsBooked
  BY DEF IInv
<1>. QED BY <1>1, Invariance, PTL

----------------------------------------------------------------------------
(***************************************************************************)
(* The books of the deal.  An investment is posted once, and is PENDING no *)
(* more then; a request that is about to confirm one has read a total that *)
(* counts no more than what the escrow account holds by now.               *)
(***************************************************************************)
Booked == [i \in Investments |-> posted[<<"confirm", i>>] * Amount[i]]

OtherBooked(i) == SumFunctionOnSet(Booked, Investments \ {i})

PostedOnce ==
    /\ \A i \in Investments : posted[<<"confirm", i>>] \in {0, 1}
    /\ \A i \in Investments : posted[<<"confirm", i>>] = 1 => investment[i] # "PENDING"

ReadIsHeld == \A w \in Workers : task[w].pc = "book" => task[w].total <= escrow

BooksInv == PostedOnce /\ NoDepositLost /\ ReadIsHeld

LEMMA BookedIsNatural ==
    ASSUME PostedOnce
    PROVE  /\ Booked \in [Investments -> Nat]
           /\ \A i \in Investments :
                 /\ posted[<<"confirm", i>>] = 0 => Booked[i] = 0
                 /\ posted[<<"confirm", i>>] = 1 => Booked[i] = Amount[i]
<1>. SUFFICES ASSUME NEW i \in Investments
              PROVE  /\ Booked[i] \in Nat
                     /\ posted[<<"confirm", i>>] = 0 => Booked[i] = 0
                     /\ posted[<<"confirm", i>>] = 1 => Booked[i] = Amount[i]
  BY DEF Booked
<1>1. Amount[i] \in Nat
  BY ConfigurationAssumption
<1>2. CASE posted[<<"confirm", i>>] = 0
  BY <1>1, <1>2 DEF Booked
<1>3. CASE posted[<<"confirm", i>>] = 1
  BY <1>1, <1>3 DEF Booked
<1>. QED BY <1>2, <1>3 DEF PostedOnce

LEMMA BookedSums ==
    ASSUME PostedOnce
    PROVE  /\ BookedAmount \in Nat
           /\ \A i \in Investments :
                 OtherBooked(i) \in Nat /\ BookedAmount = Booked[i] + OtherBooked(i)
<1>1. IsFiniteSet(Investments) /\ \A i \in Investments : Booked[i] \in Nat
  BY BookedIsNatural, ConfigurationAssumption
<1>2. BookedAmount = SumFunctionOnSet(Booked, Investments)
  BY DEF BookedAmount, Booked, SumFunction
<1>3. BookedAmount \in Nat
  BY <1>1, <1>2, SumOfNaturals
<1>4. ASSUME NEW i \in Investments
      PROVE  OtherBooked(i) \in Nat /\ BookedAmount = Booked[i] + OtherBooked(i)
  <2>1. IsFiniteSet(Investments \ {i})
    BY <1>1, FS_Subset
  <2>2. OtherBooked(i) \in Nat
    BY <1>1, <2>1, SumOfNaturals DEF OtherBooked
  <2>3. \A j \in Investments : Booked[j] \in Int
    BY <1>1
  <2>. QED BY <1>1, <1>2, <2>2, <2>3, SumWithout DEF OtherBooked
<1>. QED BY <1>3, <1>4

\* What BookedIsNatural and BookedSums say, of the next state.
LEMMA BookedNext ==
    ASSUME PostedOnce'
    PROVE  \A i \in Investments :
              /\ Booked'[i] \in Nat
              /\ OtherBooked(i)' \in Nat
              /\ BookedAmount' = Booked'[i] + OtherBooked(i)'
<1>1. ASSUME NEW i \in Investments PROVE Booked'[i] \in Nat
  <2>1. posted'[<<"confirm", i>>] \in {0, 1} /\ Amount[i] \in Nat
    BY ConfigurationAssumption DEF PostedOnce
  <2>2. posted'[<<"confirm", i>>] * Amount[i] \in Nat
    BY <2>1
  <2>. QED BY <2>2 DEF Booked
<1>2. BookedAmount' = SumFunctionOnSet(Booked', Investments)
  BY DEF BookedAmount, Booked, SumFunction
<1>3. ASSUME NEW i \in Investments
      PROVE  OtherBooked(i)' \in Nat /\ BookedAmount' = Booked'[i] + OtherBooked(i)'
  <2>1. IsFiniteSet(Investments) /\ IsFiniteSet(Investments \ {i})
    BY ConfigurationAssumption, FS_Subset
  <2>2. OtherBooked(i)' \in Nat
    BY <1>1, <2>1, SumOfNaturals DEF OtherBooked
  <2>3. \A j \in Investments : Booked'[j] \in Int
    BY <1>1
  <2>. QED BY <1>2, <2>1, <2>2, <2>3, SumWithout DEF OtherBooked
<1>. QED BY <1>1, <1>3

LEMMA ConfirmKeys ==
    \A i, j \in Investments : <<"confirm", i>> = <<"confirm", j>> => i = j
  OBVIOUS

\* A step that books nothing and takes no request to where it books.
LEMMA BooksStay ==
    ASSUME BooksInv, UNCHANGED <<deal, escrow>>,
           \A i \in Investments : /\ posted'[<<"confirm", i>>] = posted[<<"confirm", i>>]
                                  /\ investment[i] # "PENDING" => investment'[i] # "PENDING",
           \A v \in Workers : task'[v].pc = "book" =>
               task[v].pc = "book" /\ task'[v].total = task[v].total
    PROVE  BooksInv'
<1>1. PostedOnce'
  BY DEF BooksInv, PostedOnce
<1>2. Booked' = Booked
  BY DEF Booked
<1>3. BookedAmount' = BookedAmount
  BY <1>2 DEF BookedAmount, Booked
<1>4. NoDepositLost'
  BY <1>3 DEF BooksInv, NoDepositLost
<1>5. ReadIsHeld'
  BY DEF BooksInv, ReadIsHeld
<1>. QED BY <1>1, <1>4, <1>5 DEF BooksInv

LEMMA Landing ==
    ASSUME NEW w \in Workers, task \in [Workers -> Task], NEW t \in Task, NEW pc, Continue(w, t, pc)
    PROVE  /\ task'[w].pc = pc
           /\ \A v \in Workers \ {w} : task'[v] = task[v]
  BY DEF Continue, Idle, Task

\* Where a request is about to confirm an investment it has found PENDING.
Confirming == {"include", "book"}

\* Only the reads of confirm take a request there.
LEMMA OnlyReadsConfirm ==
    ASSUME IInv, NEW w \in Workers, Work(w) \/ Die(w) \/ Throw(w) \/ ChargeUnanswered(w),
           ~ ReadInvestment(w), ~ ReadDeal(w)
    PROVE  task'[w].pc \notin Confirming /\ \A v \in Workers \ {w} : task'[v] = task[v]
<1>1. task \in [Workers -> Task] /\ task[w] \in Task /\ Grounded(w)
  BY DEF IInv, Shapes
<1>2. ASSUME NEW t \in Task, NEW pc \in Pcs \ Confirming, Continue(w, t, pc)
      PROVE  task'[w].pc \notin Confirming /\ \A v \in Workers \ {w} : task'[v] = task[v]
  BY <1>1, <1>2, Landing DEF Pcs, Confirming
<1>3. Returned(w) \in Pcs \ Confirming /\ Thrown(w) \in Pcs \ Confirming
  BY DEF Returned, Thrown, Pcs, Confirming
<1>4. \A s : Finalize(w, s) \in Pcs \ Confirming
  BY <1>3 DEF Finalize, Pcs, Confirming
<1>. USE DEF Goto
<1>5. CASE Load(w) \/ Reread(w)
  <2>0. task[w].payment \in Payments /\ payment[task[w].payment] \in Row
    <3>1. task[w].pc \in {"load", "reread"}
      BY <1>5 DEF Load, Reread
    <3>. QED BY <1>1, <3>1 DEF IInv, Shapes, Grounded
  <2>1. PICK s \in Row, pc \in {"attempt", "end", "ask"} : Continue(w, [task[w] EXCEPT !.seen = s], pc)
    BY <1>5, <2>0 DEF Load, Reread
  <2>2. [task[w] EXCEPT !.seen = s] \in Task
    BY <1>1 DEF Task
  <2>. QED BY <1>2, <2>1, <2>2 DEF Pcs, Confirming
<1>6. CASE CreateAttempt(w) \/ Charge(w) \/ ChargeRejected(w) \/ FailPayment(w) \/ RefundEvent(w)
           \/ MarkProcessed(w) \/ Die(w) \/ ChargeUnanswered(w)
  <2>1. \E pc \in {"charge", "record", "rejected", "catch", "mark", "end"} : Continue(w, task[w], pc)
    BY <1>6 DEF CreateAttempt, Charge, ChargeRejected, FailPayment, RefundEvent, MarkProcessed,
                Die, ChargeUnanswered
  <2>. QED BY <1>1, <1>2, <2>1 DEF Pcs, Confirming
<1>7. CASE Throw(w) \/ BookInvestment(w)
  BY <1>1, <1>2, <1>3, <1>7, CaughtIsTask DEF Throw, BookInvestment
<1>8. CASE RecordReference(w)
  <2>1. InlineEvent(w) \in Event
    BY DEF InlineEvent, Event
  <2>2. [task[w] EXCEPT !.event = InlineEvent(w)] \in Task
    BY <1>1, <2>1 DEF Task
  <2>3. \/ Continue(w, [task[w] EXCEPT !.event = InlineEvent(w)], "lookup")
        \/ Continue(w, task[w], "reread")
    BY <1>8 DEF RecordReference
  <2>. QED BY <1>1, <1>2, <2>2, <2>3 DEF Pcs, Confirming
<1>9. CASE CatchError(w)
  BY <1>2, <1>9, CaughtIsTask DEF CatchError, Pcs, Confirming
<1>10. CASE LookUpEvent(w)
  <2>1. CASE webhook[task[w].event] # "none"
    BY <1>1, <1>2, <1>10, <2>1 DEF LookUpEvent, Pcs, Confirming
  <2>2. CASE webhook[task[w].event] = "none"
    <3>1. PICK p \in Payments \cup {NoPayment}, s \in Row \cup {NoPayment} :
             Continue(w, [task[w] EXCEPT !.found = p, !.seen = s], "store")
      BY <1>10, <2>2 DEF LookUpEvent, IInv, Shapes
    <3>2. [task[w] EXCEPT !.found = p, !.seen = s] \in Task
      BY <1>1 DEF Task
    <3>. QED BY <1>2, <3>1, <3>2 DEF Pcs, Confirming
  <2>. QED BY <2>1, <2>2
<1>11. CASE StoreEvent(w)
  <2>1. EventStep(w) \in Pcs \ Confirming
    BY <1>1, <1>4, <1>11 DEF StoreEvent, EventStep, Grounded, Event, Pcs, Confirming
  <2>. QED BY <1>1, <1>2, <1>3, <1>11, <2>1 DEF StoreEvent
<1>12. CASE Ask(w)
  <2>1. \E pc \in Pcs \ Confirming : Continue(w, task[w], pc)
    BY <1>4, <1>12 DEF Ask, Pcs, Confirming
  <2>. QED BY <1>1, <1>2, <2>1
<1>13. CASE Settle(w)
  <2>1. AfterSettlement(w, task[w].found) \in Pcs \ Confirming
    BY <1>3 DEF AfterSettlement, Pcs, Confirming
  <2>. QED BY <1>1, <1>2, <1>13, <2>1 DEF Settle
<1>. QED BY <1>5, <1>6, <1>7, <1>8, <1>9, <1>10, <1>11, <1>12, <1>13 DEF Work

LEMMA OtherBookedStays ==
    ASSUME NEW i \in Investments, \A j \in Investments : j # i => Booked'[j] = Booked[j]
    PROVE  OtherBooked(i)' = OtherBooked(i)
<1>1. IsFiniteSet(Investments \ {i})
  BY ConfigurationAssumption, FS_Subset
<1>2. \A j \in Investments \ {i} : Booked[j] = Booked'[j]
  OBVIOUS
<1>. QED BY <1>1, <1>2, SumAgree DEF OtherBooked

\* confirm reads a total that the escrow account holds.
LEMMA ReadDealBooks ==
    ASSUME IInv, BooksInv, NEW w \in Workers, ReadDeal(w)
    PROVE  BooksInv'
<1>. DEFINE t == [task[w] EXCEPT !.total = deal.total]
<1>1. /\ task \in [Workers -> Task] /\ task[w] \in Task
      /\ task' = [task EXCEPT ![w] = [t EXCEPT !.pc = "book"]]
      /\ UNCHANGED <<store, faults, failing, interrupted>>
  BY DEF IInv, Shapes, ReadDeal, Continue
<1>2. task'[w].total = deal.total /\ \A v \in Workers \ {w} : task'[v] = task[v]
  BY <1>1 DEF Task
<1>3. Booked' = Booked
  BY <1>1 DEF Booked, store
<1>4. PostedOnce' /\ NoDepositLost'
  BY <1>1, <1>3 DEF BooksInv, PostedOnce, NoDepositLost, BookedAmount, Booked, store
<1>5. ReadIsHeld'
  <2>1. deal.total <= escrow
    BY DEF BooksInv, NoDepositLost, IInv, Shapes
  <2>. QED BY <1>1, <1>2, <2>1 DEF BooksInv, ReadIsHeld, store
<1>. QED BY <1>4, <1>5 DEF BooksInv

\* The writes of confirm add the amount to the escrow balance, to the total
\* read, and, the first time, to what is booked.
LEMMA BookInvestmentBooks ==
    ASSUME IInv, BooksInv, NEW w \in Workers, BookInvestment(w)
    PROVE  BooksInv'
<1>1. PICK i \in Investments : i = InvestmentOf[task[w].found]
  BY DEF IInv, Grounded, BookInvestment
<1>. DEFINE k == <<"confirm", i>>
            total == task[w].total + Amount[i]
<1>2. /\ task[w].pc = "book"
      /\ investment' = [investment EXCEPT ![i] = "CONFIRMED"]
      /\ deal' = [total |-> total, funded |-> deal.funded \/ total >= Target]
      /\ posted' = Post(k)
      /\ escrow' = escrow + Amount[i]
  BY <1>1 DEF BookInvestment, NewTotal, Deposited
<1>3. /\ task[w].total \in Nat /\ escrow \in Nat /\ Amount[i] \in Nat /\ Target \in Nat
      /\ task[w].total <= escrow /\ deal.total \in Nat
  BY <1>1, <1>2, ConfigurationAssumption DEF IInv, Shapes, Task, BooksInv, ReadIsHeld
<1>4. /\ posted'[k] = 1
      /\ \A j \in Investments \ {i} : posted'[<<"confirm", j>>] = posted[<<"confirm", j>>]
  BY <1>2, SettlementKeys DEF IInv, Shapes, Post, BooksInv, PostedOnce
<1>5. PostedOnce'
  BY <1>2, <1>4 DEF BooksInv, PostedOnce, IInv, Shapes
<1>6. \A j \in Investments : Booked[j] <= Booked'[j] /\ (j # i => Booked'[j] = Booked[j])
  <2>1. ASSUME NEW j \in Investments, j # i PROVE Booked'[j] = Booked[j] /\ Booked[j] <= Booked'[j]
    BY <1>4, <2>1, BookedIsNatural DEF Booked, BooksInv
  <2>2. Booked[i] <= Booked'[i]
    <3>1. Booked'[i] = Amount[i]
      BY <1>3, <1>4 DEF Booked
    <3>2. Booked[i] \in {0, Amount[i]}
      BY BookedIsNatural DEF BooksInv, PostedOnce
    <3>. QED BY <1>3, <3>1, <3>2
  <2>. QED BY <2>1, <2>2
<1>7. /\ OtherBooked(i)' = OtherBooked(i)
      /\ BookedAmount' = Amount[i] + OtherBooked(i)
      /\ BookedAmount <= BookedAmount' /\ BookedAmount' <= BookedAmount + Amount[i]
      /\ BookedAmount \in Nat /\ BookedAmount' \in Nat
  <2>1. OtherBooked(i)' = OtherBooked(i) /\ OtherBooked(i) \in Nat
    BY <1>6, OtherBookedStays, BookedSums DEF BooksInv
  <2>2. BookedAmount' = Booked'[i] + OtherBooked(i)'
    BY <1>5, BookedNext
  <2>3. Booked'[i] = Amount[i]
    BY <1>3, <1>4 DEF Booked
  <2>4. BookedAmount = Booked[i] + OtherBooked(i) /\ Booked[i] \in {0, Amount[i]}
    BY BookedSums, BookedIsNatural DEF BooksInv, PostedOnce
  <2>. QED BY <1>3, <2>1, <2>2, <2>3, <2>4
<1>. HIDE DEF total
<1>8. deal'.total = total /\ deal'.funded = (deal.funded \/ total >= Target)
  BY <1>2
<1>9. total <= escrow' /\ escrow <= escrow' /\ escrow' \in Nat
  BY <1>2, <1>3 DEF total
<1>10. NoDepositLost'
  <2>1. escrow' >= BookedAmount'
    BY <1>2, <1>3, <1>7 DEF BooksInv, NoDepositLost
  <2>2. escrow' >= deal'.total
    BY <1>3, <1>8, <1>9 DEF total
  <2>3. deal'.funded => escrow' >= Target
    <3>1. CASE deal.funded
      BY <1>3, <1>9, <3>1 DEF BooksInv, NoDepositLost
    <3>2. CASE total >= Target
      BY <1>3, <1>9, <3>2 DEF total
    <3>. QED BY <1>8, <3>1, <3>2
  <2>. QED BY <2>1, <2>2, <2>3 DEF NoDepositLost
<1>11. ReadIsHeld'
  <2>1. ASSUME NEW v \in Workers, task'[v].pc = "book"
        PROVE  task'[v].total <= escrow'
    <3>1. task'[v] = task[v] /\ task[v].pc = "book"
      <4>1. ~ ReadInvestment(w) /\ ~ ReadDeal(w)
        BY <1>2 DEF ReadInvestment, ReadDeal
      <4>. QED BY <2>1, <4>1, OnlyReadsConfirm DEF Work, Confirming
    <3>2. task[v].total \in Nat /\ task[v].total <= escrow
      BY <3>1 DEF IInv, Shapes, Task, BooksInv, ReadIsHeld
    <3>. QED BY <1>3, <1>9, <3>1, <3>2
  <2>. QED BY <2>1 DEF ReadIsHeld
<1>. QED BY <1>5, <1>10, <1>11 DEF BooksInv

LEMMA BooksKept ==
    ASSUME IInv, NEW w \in Workers, Work(w) \/ Die(w) \/ Throw(w) \/ ChargeUnanswered(w),
           ~ BookInvestment(w)
    PROVE  /\ UNCHANGED <<deal, escrow, investment>>
           /\ \A i \in Investments : posted'[<<"confirm", i>>] = posted[<<"confirm", i>>]
<1>1. UNCHANGED <<deal, escrow, investment>>
  BY DEF Work, Load, CreateAttempt, Charge, ChargeRejected, RecordReference, CatchError,
         FailPayment, LookUpEvent, StoreEvent, RefundEvent, MarkProcessed, Reread, Ask, Settle,
         ReadInvestment, ReadDeal, Die, Throw, ChargeUnanswered, store
<1>2. CASE Settle(w)
  BY <1>1, <1>2, SettlementKeys DEF Settle, Post, IInv, Shapes
<1>3. CASE ~ Settle(w)
  BY <1>1, <1>3 DEF Work, Load, CreateAttempt, Charge, ChargeRejected, RecordReference, CatchError,
         FailPayment, LookUpEvent, StoreEvent, RefundEvent, MarkProcessed, Reread, Ask,
         ReadInvestment, ReadDeal, Die, Throw, ChargeUnanswered, store
<1>. QED BY <1>1, <1>2, <1>3

\* The first read of confirm takes a request on only with a PENDING investment,
\* which is not posted yet.
LEMMA ReadInvestmentIncludes ==
    ASSUME IInv, NEW w \in Workers, ReadInvestment(w)
    PROVE  /\ task'[w].pc # "book"
           /\ task'[w].pc = "include" => /\ task'[w].found = task[w].found
                                         /\ investment[InvestmentOf[task[w].found]] = "PENDING"
           /\ \A v \in Workers \ {w} : task'[v] = task[v]
           /\ UNCHANGED <<store, faults, failing, interrupted>>
<1>. DEFINE pc == ConfirmStep(w, investment[InvestmentOf[task[w].found]])
<1>1. /\ task \in [Workers -> Task] /\ task[w] \in Task /\ task[w].pc = "confirm"
      /\ InvestmentOf[task[w].found] \in Investments
      /\ Continue(w, task[w], pc) /\ UNCHANGED <<store, faults, failing, interrupted>>
  BY DEF IInv, Shapes, ReadInvestment, Grounded, Goto
<1>2. /\ pc \in {"mark", "catch", "include", "end"}
      /\ pc = "include" => investment[InvestmentOf[task[w].found]] = "PENDING"
  BY <1>1 DEF IInv, Shapes, ConfirmStep, Returned, Thrown
<1>. HIDE DEF pc
<1>3. task'[w].pc = pc /\ \A v \in Workers \ {w} : task'[v] = task[v]
  BY <1>1, Landing
<1>4. pc # "end" => task'[w].found = task[w].found
  BY <1>1 DEF Continue, Task
<1>. QED BY <1>1, <1>2, <1>3, <1>4

LEMMA BooksNext ==
    ASSUME IInv, BooksInv, [Step]_vars
    PROVE  BooksInv'
<1>. DEFINE Same == /\ UNCHANGED <<deal, escrow, posted>>
                    /\ \A i \in Investments : investment[i] # "PENDING" => investment'[i] # "PENDING"
<1>1. ASSUME Same, UNCHANGED task PROVE BooksInv'
  BY <1>1, BooksStay
<1>2. CASE UNCHANGED vars
  BY <1>1, <1>2 DEF vars, store
<1>3. ASSUME NEW p \in Payments, CreatePayment(p) PROVE BooksInv'
  BY <1>1, <1>3 DEF CreatePayment
<1>4. ASSUME NEW w \in Workers, NEW o \in {"paid", "declined", "refunded"}, Collect(w, o) PROVE BooksInv'
  BY <1>1, <1>4 DEF Collect
<1>5. ASSUME NEW i \in Investments, FindPending(i) \/ FailInvestment(i) PROVE BooksInv'
  BY <1>1, <1>5 DEF FindPending, FailInvestment, IInv, Shapes, store
<1>6. ASSUME NEW w \in Workers, NEW t, Begin(w, t), t.pc # "book" PROVE BooksInv'
  <2>1. \A v \in Workers : task'[v].pc = "book" => task'[v] = task[v]
    BY <1>6 DEF Begin, IInv, Shapes
  <2>. QED BY <1>6, <2>1, BooksStay DEF Begin, store
<1>7. ASSUME NEW w \in Workers, NEW p \in Payments, RequestProcess(w, p) \/ Reconcile(w, p)
      PROVE  BooksInv'
  <2>1. \A pc, kind : PaymentTask(pc, kind, p).pc = pc
    BY DEF PaymentTask, Idle
  <2>2. [Idle EXCEPT !.pc = "end", !.payment = p].pc = "end"
    BY DEF Idle
  <2>. QED BY <1>6, <1>7, <2>1, <2>2 DEF RequestProcess, Reconcile
<1>8. ASSUME NEW w \in Workers, NEW e \in Event, Deliver(w, e) PROVE BooksInv'
  <2>1. [Idle EXCEPT !.pc = "lookup", !.kind = "webhook", !.event = e].pc = "lookup"
    BY DEF Idle
  <2>. QED BY <1>6, <1>8, <2>1 DEF Deliver
<1>9. ASSUME NEW w \in Workers, Work(w) \/ Die(w) \/ Throw(w) \/ ChargeUnanswered(w) PROVE BooksInv'
  <2>1. CASE ReadDeal(w)
    BY <2>1, ReadDealBooks
  <2>2. CASE BookInvestment(w)
    BY <2>2, BookInvestmentBooks
  <2>3. CASE ~ ReadDeal(w) /\ ~ BookInvestment(w)
    <3>1. \A v \in Workers : task'[v].pc = "book" => task'[v] = task[v]
      BY <1>9, <2>3, OnlyReadsConfirm, ReadInvestmentIncludes DEF Confirming
    <3>2. /\ UNCHANGED <<deal, escrow, investment>>
          /\ \A i \in Investments : posted'[<<"confirm", i>>] = posted[<<"confirm", i>>]
      BY <1>9, <2>3, BooksKept
    <3>. QED BY <3>1, <3>2, BooksStay
  <2>. QED BY <2>1, <2>2, <2>3
<1>. QED BY <1>2, <1>3, <1>4, <1>5, <1>7, <1>8, <1>9 DEF Step

LEMMA BooksInit ==
    ASSUME Init
    PROVE  BooksInv
<1>1. PostedOnce
  BY SettlementKeys DEF Init, PostedOnce
<1>2. ReadIsHeld
  BY DEF Init, Idle, ReadIsHeld
<1>3. BookedAmount = 0
  <2>1. \A i \in Investments : Booked[i] = 0
    BY <1>1, BookedIsNatural, SettlementKeys DEF Init
  <2>2. BookedAmount = SumFunctionOnSet(Booked, Investments)
    BY DEF BookedAmount, Booked, SumFunction
  <2>. QED BY <2>1, <2>2, SumOfZeros, ConfigurationAssumption
<1>4. NoDepositLost
  BY <1>3 DEF Init, NoDepositLost
<1>. QED BY <1>1, <1>2, <1>4 DEF BooksInv

LEMMA BooksInvariance == Spec => [](IInv /\ BooksInv)
<1>1. Init => IInv /\ BooksInv
  BY InitIsInductive, BooksInit
<1>2. IInv /\ BooksInv /\ [Step]_vars => (IInv /\ BooksInv)'
  BY StepPreserves, BooksNext
<1>. QED BY <1>1, <1>2, NextIsStep, PTL DEF Spec

\* However confirmations overlap and fail, the escrow account holds at least what
\* the ledger moved into it and at least what the deal counts as invested, by
\* which it becomes FUNDED.
THEOREM DepositsStay == Spec => []NoDepositLost
<1>1. BooksInv => NoDepositLost
  BY DEF BooksInv
<1>. QED BY <1>1, BooksInvariance, PTL

----------------------------------------------------------------------------
(***************************************************************************)
(* Requests one by one.                                                    *)
(***************************************************************************)
Alone == \A v, w \in Busy : v = w

Serves(w) == Work(w) \/ Die(w) \/ Throw(w) \/ ChargeUnanswered(w)

LEMMA ServedIsBusy ==
    ASSUME IInv, NEW w \in Workers, Serves(w)
    PROVE  w \in Busy /\ \A v \in Workers \ {w} : task'[v] = task[v]
<1>1. w \in Busy
  BY DEF Serves, Busy, Work, Load, CreateAttempt, Charge, ChargeRejected, RecordReference, CatchError,
         FailPayment, LookUpEvent, StoreEvent, RefundEvent, MarkProcessed, Reread, Ask, Settle,
         ReadInvestment, ReadDeal, BookInvestment, Die, Throw, ChargeUnanswered
<1>2. CASE ~ ReadInvestment(w) /\ ~ ReadDeal(w)
  BY <1>1, <1>2, OnlyReadsConfirm DEF Serves
<1>3. CASE ReadInvestment(w) \/ ReadDeal(w)
  <2>1. \A v \in Workers \ {w} : task'[v] = task[v]
    BY <1>3 DEF ReadInvestment, ReadDeal, Goto, Continue, IInv, Shapes
  <2>. QED BY <1>1, <2>1
<1>. QED BY <1>2, <1>3

LEMMA BeginsAlone ==
    ASSUME Shapes, traffic.atOnce = 1, NEW w \in Workers, NEW t, Begin(w, t)
    PROVE  /\ Busy = {}
           /\ task'[w] = t
           /\ \A v \in Workers \ {w} : task'[v] = task[v]
<1>1. IsFiniteSet(Busy)
  BY ConfigurationAssumption, FS_Subset DEF Busy
<1>2. Cardinality(Busy) \in Nat /\ Cardinality(Busy) < 1
  BY <1>1, FS_CardinalityType DEF Begin
<1>3. Busy = {}
  BY <1>1, <1>2, FS_EmptySet
<1>. QED BY <1>3 DEF Begin, Shapes

\* A step of no request leaves all of them alone.
Outside ==
    \/ \E p \in Payments : CreatePayment(p)
    \/ \E w \in Workers, o \in {"paid", "declined", "refunded"} : Collect(w, o)
    \/ \E i \in Investments : FindPending(i) \/ FailInvestment(i)
    \/ UNCHANGED vars

Begins(w) ==
    \/ \E p \in Payments : RequestProcess(w, p) \/ Reconcile(w, p)
    \/ \E e \in Event : Deliver(w, e)

LEMMA StepOf ==
    ASSUME [Step]_vars
    PROVE  Outside \/ \E w \in Workers : Begins(w) \/ Serves(w)
  BY DEF Step, Outside, Begins, Serves

LEMMA OutsideKeepsTasks ==
    ASSUME Outside
    PROVE  UNCHANGED task
  BY DEF Outside, CreatePayment, Collect, FindPending, FailInvestment, vars

LEMMA BeginsOne ==
    ASSUME Shapes, traffic.atOnce = 1, NEW w \in Workers, Begins(w)
    PROVE  /\ Busy = {} /\ UNCHANGED <<store, faults, failing, interrupted>>
           /\ \A v \in Workers \ {w} : task'[v] = task[v]
           /\ task'[w].pc \in {"load", "attempt", "ask", "lookup", "end"}
<1>1. ASSUME NEW t, Begin(w, t), t.pc \in {"load", "attempt", "ask", "lookup", "end"}
      PROVE  /\ Busy = {} /\ UNCHANGED <<store, faults, failing, interrupted>>
             /\ \A v \in Workers \ {w} : task'[v] = task[v]
             /\ task'[w].pc \in {"load", "attempt", "ask", "lookup", "end"}
  BY <1>1, BeginsAlone DEF Begin
<1>2. ASSUME NEW p \in Payments, RequestProcess(w, p) \/ Reconcile(w, p)
      PROVE  \E t : Begin(w, t) /\ t.pc \in {"load", "attempt", "ask", "lookup", "end"}
  <2>1. \A pc, kind : PaymentTask(pc, kind, p).pc = pc
    BY DEF PaymentTask, Idle
  <2>2. [Idle EXCEPT !.pc = "end", !.payment = p].pc = "end"
    BY DEF Idle
  <2>. QED BY <1>2, <2>1, <2>2 DEF RequestProcess, Reconcile
<1>3. ASSUME NEW e \in Event, Deliver(w, e)
      PROVE  \E t : Begin(w, t) /\ t.pc \in {"load", "attempt", "ask", "lookup", "end"}
  <2>1. [Idle EXCEPT !.pc = "lookup", !.kind = "webhook", !.event = e].pc = "lookup"
    BY DEF Idle
  <2>. QED BY <1>3, <2>1 DEF Deliver
<1>. QED BY <1>1, <1>2, <1>3 DEF Begins

LEMMA AloneStays ==
    ASSUME IInv, traffic.atOnce = 1, Alone, [Step]_vars
    PROVE  Alone'
<1>1. CASE Outside
  BY <1>1, OutsideKeepsTasks DEF Alone, Busy
<1>2. ASSUME NEW w \in Workers, Begins(w) PROVE Alone'
  BY <1>2, BeginsOne DEF Alone, Busy, IInv
<1>3. ASSUME NEW w \in Workers, Serves(w) PROVE Alone'
  BY <1>3, ServedIsBusy DEF Alone, Busy
<1>. QED BY <1>1, <1>2, <1>3, StepOf

\* The one request that is about to confirm has read the total as it is.
ReadIsCurrent ==
    \A w \in Workers : task[w].pc \in Confirming =>
        /\ task[w].pc = "book" => task[w].total = deal.total
        /\ posted[<<"confirm", InvestmentOf[task[w].found]>>] = 0

Agree == escrow = BookedAmount /\ deal.total = BookedAmount

AgreeInv == Alone /\ Agree /\ ReadIsCurrent

LEMMA AgreeStays ==
    ASSUME IInv, BooksInv, BooksInv', AgreeInv, Alone', UNCHANGED <<deal, escrow>>,
           \A i \in Investments : posted'[<<"confirm", i>>] = posted[<<"confirm", i>>],
           \A v \in Workers : task'[v].pc \in Confirming => task'[v] = task[v]
    PROVE  AgreeInv'
<1>1. Booked' = Booked
  BY DEF Booked
<1>2. Agree'
  BY <1>1 DEF AgreeInv, Agree, BookedAmount, Booked
<1>3. \A v \in Workers : task[v].pc \in Confirming => InvestmentOf[task[v].found] \in Investments
  BY DEF IInv, Grounded, Confirming
<1>4. ReadIsCurrent'
  BY <1>3 DEF AgreeInv, ReadIsCurrent
<1>. QED BY <1>2, <1>4 DEF AgreeInv

LEMMA AgreeOfRead ==
    ASSUME IInv, BooksInv, BooksInv', AgreeInv, Alone', NEW w \in Workers, ReadInvestment(w)
    PROVE  AgreeInv'
<1>1. /\ InvestmentOf[task[w].found] \in Investments /\ task'[w].pc # "book"
      /\ task'[w].pc = "include" => /\ task'[w].found = task[w].found
                                    /\ investment[InvestmentOf[task[w].found]] = "PENDING"
      /\ \A v \in Workers \ {w} : task'[v] = task[v]
      /\ UNCHANGED <<store, faults, failing, interrupted>>
  BY ReadInvestmentIncludes DEF IInv, Grounded, ReadInvestment
<1>2. task'[w].pc = "include" => posted[<<"confirm", InvestmentOf[task[w].found]>>] = 0
  BY <1>1 DEF BooksInv, PostedOnce
<1>3. ReadIsCurrent'
  BY <1>1, <1>2 DEF AgreeInv, ReadIsCurrent, Confirming, store
<1>4. Agree'
  BY <1>1 DEF AgreeInv, Agree, BookedAmount, store
<1>. QED BY <1>3, <1>4 DEF AgreeInv

LEMMA AgreeOfReadDeal ==
    ASSUME IInv, BooksInv, BooksInv', AgreeInv, Alone', NEW w \in Workers, ReadDeal(w)
    PROVE  AgreeInv'
<1>. DEFINE t == [task[w] EXCEPT !.total = deal.total]
<1>1. /\ task \in [Workers -> Task] /\ task[w] \in Task /\ task[w].pc = "include"
      /\ task' = [task EXCEPT ![w] = [t EXCEPT !.pc = "book"]]
      /\ UNCHANGED <<store, faults, failing, interrupted>>
  BY DEF IInv, Shapes, ReadDeal, Continue
<1>2. /\ task'[w].total = deal.total /\ task'[w].found = task[w].found /\ task'[w].pc = "book"
      /\ \A v \in Workers \ {w} : task'[v] = task[v]
  BY <1>1 DEF Task
<1>3. posted[<<"confirm", InvestmentOf[task[w].found]>>] = 0
  BY <1>1 DEF AgreeInv, ReadIsCurrent, Confirming
<1>4. ReadIsCurrent'
  BY <1>1, <1>2, <1>3 DEF AgreeInv, ReadIsCurrent, Confirming, store
<1>5. Agree'
  BY <1>1 DEF AgreeInv, Agree, BookedAmount, store
<1>. QED BY <1>4, <1>5 DEF AgreeInv

LEMMA AgreeOfBook ==
    ASSUME IInv, BooksInv, BooksInv', AgreeInv, Alone', NEW w \in Workers, BookInvestment(w)
    PROVE  AgreeInv'
<1>1. PICK i \in Investments : i = InvestmentOf[task[w].found]
  BY DEF IInv, Grounded, BookInvestment
<1>. DEFINE k == <<"confirm", i>>
            total == task[w].total + Amount[i]
<1>2. /\ task[w].pc = "book"
      /\ deal' = [total |-> total, funded |-> deal.funded \/ total >= Target]
      /\ posted' = Post(k)
      /\ escrow' = escrow + Amount[i]
  BY <1>1 DEF BookInvestment, NewTotal, Deposited
<1>3. total = deal.total + Amount[i] /\ posted[k] = 0 /\ Amount[i] \in Nat
  BY <1>1, <1>2, ConfigurationAssumption DEF AgreeInv, ReadIsCurrent, Confirming
<1>. HIDE DEF total
<1>4. /\ posted'[k] = 1
      /\ \A j \in Investments \ {i} : posted'[<<"confirm", j>>] = posted[<<"confirm", j>>]
  BY <1>2, <1>3, SettlementKeys DEF IInv, Shapes, Post
<1>5. Booked[i] = 0 /\ Booked'[i] = Amount[i] /\ \A j \in Investments : j # i => Booked'[j] = Booked[j]
  BY <1>3, <1>4 DEF Booked
<1>6. BookedAmount' = BookedAmount + Amount[i] /\ BookedAmount \in Nat
  <2>1. OtherBooked(i)' = OtherBooked(i)
    BY <1>5, OtherBookedStays
  <2>2. BookedAmount' = Booked'[i] + OtherBooked(i)'
    BY BookedNext DEF BooksInv
  <2>3. BookedAmount = Booked[i] + OtherBooked(i) /\ OtherBooked(i) \in Nat
    BY BookedSums DEF BooksInv
  <2>. QED BY <1>3, <1>5, <2>1, <2>2, <2>3
<1>7. Agree'
  <2>1. deal'.total = total
    BY <1>2
  <2>. QED BY <1>2, <1>3, <1>6, <2>1 DEF AgreeInv, Agree
<1>8. \A v \in Workers : task'[v].pc \notin Confirming
  <2>1. task'[w].pc \notin Confirming /\ \A v \in Workers \ {w} : task'[v] = task[v]
    <3>1. ~ ReadInvestment(w) /\ ~ ReadDeal(w)
      BY <1>2 DEF ReadInvestment, ReadDeal
    <3>. QED BY <3>1, OnlyReadsConfirm DEF Work
  <2>2. w \in Busy
    BY <1>2 DEF Busy
  <2>. QED BY <2>1, <2>2 DEF AgreeInv, Alone, Busy, Confirming
<1>. QED BY <1>7, <1>8 DEF AgreeInv, ReadIsCurrent

LEMMA AgreeNext ==
    ASSUME IInv, BooksInv, BooksInv', traffic.atOnce = 1, AgreeInv, [Step]_vars
    PROVE  AgreeInv'
<1>1. Alone'
  BY AloneStays DEF AgreeInv
<1>2. CASE Outside
  BY <1>1, <1>2, OutsideKeepsTasks, AgreeStays
     DEF Outside, CreatePayment, Collect, FindPending, FailInvestment, vars, store
<1>3. ASSUME NEW w \in Workers, Begins(w) PROVE AgreeInv'
  BY <1>1, <1>3, BeginsOne, AgreeStays DEF IInv, Confirming, store
<1>4. ASSUME NEW w \in Workers, Serves(w) PROVE AgreeInv'
  <2>1. CASE ReadInvestment(w)
    BY <1>1, <2>1, AgreeOfRead
  <2>2. CASE BookInvestment(w)
    BY <1>1, <2>2, AgreeOfBook
  <2>3. CASE ReadDeal(w)
    BY <1>1, <2>3, AgreeOfReadDeal
  <2>4. CASE ~ ReadInvestment(w) /\ ~ ReadDeal(w) /\ ~ BookInvestment(w)
    BY <1>1, <1>4, <2>4, OnlyReadsConfirm, BooksKept, AgreeStays DEF Serves
  <2>. QED BY <2>1, <2>2, <2>3, <2>4
<1>. QED BY <1>2, <1>3, <1>4, StepOf

\* When requests do not overlap, the escrow balance, totalInvested and the
\* ledger agree on what was invested, whatever fails.
THEOREM BooksAlwaysAgree == Spec => []BooksAgree
<1>. DEFINE AgreeOneByOne == traffic.atOnce = 1 => AgreeInv
<1>1. Init => AgreeOneByOne
  <2>. SUFFICES ASSUME Init PROVE AgreeInv
    OBVIOUS
  <2>1. BookedAmount = 0
    BY BooksInit, BookedSums DEF Init, NoDepositLost, BooksInv
  <2>. QED BY <2>1 DEF Init, Idle, AgreeInv, Alone, Busy, Agree, ReadIsCurrent, Confirming
<1>2. IInv /\ BooksInv /\ AgreeOneByOne /\ [Next]_vars => AgreeOneByOne'
  BY NextIsStep, BooksNext, AgreeNext
<1>3. AgreeOneByOne => BooksAgree
  BY DEF AgreeInv, Agree, BooksAgree
<1>. HIDE DEF AgreeOneByOne
<1>. QED BY <1>1, <1>2, <1>3, BooksInvariance, PTL DEF Spec

----------------------------------------------------------------------------
(***************************************************************************)
(* One charge at a time.                                                   *)
(***************************************************************************)
Active(v, p) == task[v].payment = p /\ charge[v] \in {"open", "paid"}

\* The investment of p has failed for good: nobody is about to confirm it.
Exempt(p) ==
    /\ InvestmentOf[p] \in Investments
    /\ investment[InvestmentOf[p]] = "FAILED"
    /\ \A v \in Workers : task[v].pc \in Confirming =>
          InvestmentOf[task[v].found] # InvestmentOf[p]

Clear(p) == Exempt(p) \/ \A v \in Workers : ~ Active(v, p)

\* A charge that counts is either about to be recorded, or the payment carries
\* its reference and will not be processed.
Held(v, p) ==
    \/ task[v].pc = "record"
    \/ payment[p].ref = v /\ payment[p].status \in {"PROCESSING", "COMPLETED"}

AllHeld == \A p \in Payments : Exempt(p) \/ \A v \in Workers : Active(v, p) => Held(v, p)

\* The provider gave the answer the event or the branch stands for.
Verdict(e) ==
    /\ e.type = "FAILED" => charge[e.charge] = "declined"
    /\ e.type = "REFUND" => charge[e.charge] = "refunded"

\* What the one request that is served knows where it stands.
Steady(w) ==
    LET t == task[w] IN
    /\ t.pc \in {"attempt", "charge", "rejected", "catch"} => Clear(t.payment)
    /\ t.pc = "record" => Exempt(t.payment) \/ \A v \in Workers : Active(v, t.payment) => v = w
    /\ t.pc \in {"fail", "refund"} => Clear(t.found)
    /\ t.pc \in {"lookup", "store"} => Verdict(t.event)
    /\ t.pc \in {"lookup", "store"} /\ t.kind = "process" => t.event.charge = w
    /\ t.pc = "store" => webhook[t.event] = "none"
    /\ t.pc = "store" /\ t.found # NoPayment => payment[t.found].ref = t.event.charge
    /\ t.pc = "ask" => payment[t.found].ref = t.seen.ref
    /\ t.pc \in {"settle", "confirm", "include", "book"} /\ t.kind = "process" =>
          t.found = t.payment

OnceInv ==
    /\ Alone
    /\ faults = 0 => AllHeld /\ \A w \in Workers : Steady(w)

LEMMA ServedPayment ==
    ASSUME IInv, NEW w \in Workers, Serves(w)
    PROVE  task'[w].payment = task[w].payment
<1>1. task \in [Workers -> Task] /\ task[w] \in Task
  BY DEF IInv, Shapes
<1>2. ASSUME NEW t, NEW pc, Continue(w, t, pc), t.payment = task[w].payment,
             [t EXCEPT !.pc = pc].payment = t.payment
      PROVE  task'[w].payment = task[w].payment
  BY <1>1, <1>2 DEF Continue, Idle
<1>3. ASSUME NEW pc, Continue(w, task[w], pc) PROVE task'[w].payment = task[w].payment
  <2>1. [task[w] EXCEPT !.pc = pc].payment = task[w].payment
    BY <1>1 DEF Task
  <2>. QED BY <1>2, <1>3, <2>1
<1>4. CASE Load(w) \/ Reread(w)
  <2>1. PICK s, pc : Continue(w, [task[w] EXCEPT !.seen = s], pc)
    BY <1>4 DEF Load, Reread
  <2>2. [task[w] EXCEPT !.seen = s].payment = task[w].payment
    BY <1>1 DEF Task
  <2>3. [[task[w] EXCEPT !.seen = s] EXCEPT !.pc = pc].payment = [task[w] EXCEPT !.seen = s].payment
    BY <1>1 DEF Task
  <2>. QED BY <1>2, <2>1, <2>2, <2>3
<1>5. CASE RecordReference(w)
  <2>1. \/ Continue(w, [task[w] EXCEPT !.event = InlineEvent(w)], "lookup")
        \/ Continue(w, task[w], "reread")
    BY <1>5 DEF RecordReference, Goto
  <2>2. [task[w] EXCEPT !.event = InlineEvent(w)].payment = task[w].payment
    BY <1>1 DEF Task
  <2>3. [[task[w] EXCEPT !.event = InlineEvent(w)] EXCEPT !.pc = "lookup"].payment
            = [task[w] EXCEPT !.event = InlineEvent(w)].payment
    BY <1>1 DEF Task
  <2>. QED BY <1>2, <1>3, <2>1, <2>2, <2>3
<1>6. CASE CatchError(w) \/ (Throw(w) /\ task[w].pc = "catch")
  <2>1. task[w].pc \in {"rejected", "catch"} /\ Continue(w, Caught(w), "fail")
    BY <1>6 DEF CatchError, Throw, Thrown
  <2>2. Caught(w) \in Task /\ Caught(w).payment = task[w].payment
    BY <2>1, CaughtIsTask
  <2>3. [Caught(w) EXCEPT !.pc = "fail"].payment = Caught(w).payment
    BY <2>2 DEF Task
  <2>. QED BY <1>2, <2>1, <2>2, <2>3
<1>7. CASE LookUpEvent(w)
  <2>1. \/ Continue(w, task[w], "end")
        \/ \E p, s : Continue(w, [task[w] EXCEPT !.found = p, !.seen = s], "store")
    BY <1>7 DEF LookUpEvent, Goto
  <2>2. ASSUME NEW p, NEW s, Continue(w, [task[w] EXCEPT !.found = p, !.seen = s], "store")
        PROVE  task'[w].payment = task[w].payment
    <3>1. [task[w] EXCEPT !.found = p, !.seen = s].payment = task[w].payment
      BY <1>1 DEF Task
    <3>2. [[task[w] EXCEPT !.found = p, !.seen = s] EXCEPT !.pc = "store"].payment
              = [task[w] EXCEPT !.found = p, !.seen = s].payment
      BY <1>1 DEF Task
    <3>. QED BY <1>2, <2>2, <3>1, <3>2
  <2>. QED BY <1>3, <2>1, <2>2
<1>8. CASE ReadDeal(w)
  <2>1. Continue(w, [task[w] EXCEPT !.total = deal.total], "book")
    BY <1>8 DEF ReadDeal
  <2>2. [task[w] EXCEPT !.total = deal.total].payment = task[w].payment
    BY <1>1 DEF Task
  <2>3. [[task[w] EXCEPT !.total = deal.total] EXCEPT !.pc = "book"].payment
            = [task[w] EXCEPT !.total = deal.total].payment
    BY <1>1 DEF Task
  <2>. QED BY <1>2, <2>1, <2>2, <2>3
<1>9. CASE \/ CreateAttempt(w) \/ Charge(w) \/ ChargeRejected(w) \/ FailPayment(w) \/ StoreEvent(w)
           \/ RefundEvent(w) \/ MarkProcessed(w) \/ Ask(w) \/ Settle(w) \/ BookInvestment(w)
           \/ ReadInvestment(w) \/ Die(w) \/ (Throw(w) /\ task[w].pc # "catch") \/ ChargeUnanswered(w)
  <2>1. \E pc : Continue(w, task[w], pc)
    BY <1>9 DEF CreateAttempt, Charge, ChargeRejected, FailPayment, StoreEvent, RefundEvent,
                MarkProcessed, Ask, Settle, BookInvestment, ReadInvestment, Die, Throw, ChargeUnanswered, Goto
  <2>. QED BY <1>3, <2>1
<1>. QED BY <1>4, <1>5, <1>6, <1>7, <1>8, <1>9 DEF Serves, Work

LEMMA ChargesKept ==
    ASSUME NEW w \in Workers, Serves(w), ~ Charge(w), ~ ChargeUnanswered(w)
    PROVE  UNCHANGED charge
  BY DEF Serves, Work, Load, CreateAttempt, ChargeRejected, RecordReference, CatchError,
         FailPayment, LookUpEvent, StoreEvent, RefundEvent, MarkProcessed, Reread, Ask, Settle,
         ReadInvestment, ReadDeal, BookInvestment, Die, Throw, store

\* Only a request that charges adds a charge that counts.
LEMMA ActiveBefore ==
    ASSUME IInv, [Step]_vars, NEW v \in Workers, ~ Charge(v), ~ ChargeUnanswered(v),
           NEW p \in Payments, (Active(v, p))'
    PROVE  Active(v, p)
<1>1. CASE Outside
  <2>1. charge'[v] \in {"open", "paid"} => charge[v] \in {"open", "paid"}
    BY <1>1 DEF Outside, CreatePayment, Collect, FindPending, FailInvestment, vars, store, IInv, Shapes
  <2>. QED BY <1>1, <2>1, OutsideKeepsTasks DEF Active
<1>2. ASSUME NEW w \in Workers, Begins(w) PROVE Active(v, p)
  <2>1. /\ task[w].pc = "idle" /\ UNCHANGED charge
        /\ \A u \in Workers \ {w} : task'[u] = task[u]
    BY <1>2 DEF Begins, RequestProcess, Reconcile, Deliver, Begin, store, IInv, Shapes
  <2>2. charge[w] = "none"
    BY <2>1 DEF IInv, Charges
  <2>. QED BY <2>1, <2>2 DEF Active
<1>3. ASSUME NEW w \in Workers, Serves(w) PROVE Active(v, p)
  <2>1. task'[v].payment = task[v].payment
    BY <1>3, ServedPayment, ServedIsBusy
  <2>2. charge'[v] = charge[v]
    <3>1. CASE Charge(w) \/ ChargeUnanswered(w)
      BY <3>1 DEF Charge, ChargeUnanswered, IInv, Shapes
    <3>2. CASE ~ Charge(w) /\ ~ ChargeUnanswered(w)
      BY <1>3, <3>2, ChargesKept
    <3>. QED BY <3>1, <3>2
  <2>. QED BY <2>1, <2>2 DEF Active
<1>. QED BY <1>1, <1>2, <1>3, StepOf

LEMMA ExemptStays ==
    ASSUME IInv, traffic.atOnce = 1, [Step]_vars, NEW p \in Payments, Exempt(p)
    PROVE  (Exempt(p))'
<1>. DEFINE i == InvestmentOf[p]
<1>1. i \in Investments /\ investment[i] = "FAILED"
      /\ \A v \in Workers : task[v].pc \in Confirming => InvestmentOf[task[v].found] # i
  BY DEF Exempt
<1>. DEFINE Failed == /\ investment'[i] = "FAILED"
                      /\ \A v \in Workers : task'[v].pc \in Confirming => InvestmentOf[task'[v].found] # i
<1>2. SUFFICES Failed
  BY <1>1 DEF Exempt
<1>3. CASE Outside
  BY <1>1, <1>3 DEF Outside, CreatePayment, Collect, FindPending, FailInvestment, vars, store, IInv, Shapes
<1>4. ASSUME NEW w \in Workers, Begins(w) PROVE Failed
  BY <1>1, <1>4, BeginsOne DEF IInv, Confirming, store
<1>5. ASSUME NEW w \in Workers, Serves(w) PROVE Failed
  <2>1. CASE ReadInvestment(w)
    BY <1>1, <2>1, ReadInvestmentIncludes DEF Confirming, store
  <2>2. CASE ReadDeal(w)
    <3>. DEFINE t == [task[w] EXCEPT !.total = deal.total]
    <3>1. /\ task \in [Workers -> Task] /\ task[w] \in Task /\ task[w].pc = "include"
          /\ task' = [task EXCEPT ![w] = [t EXCEPT !.pc = "book"]]
          /\ UNCHANGED investment
      BY <2>2 DEF IInv, Shapes, ReadDeal, Continue, store
    <3>2. task'[w].found = task[w].found /\ \A v \in Workers \ {w} : task'[v] = task[v]
      BY <3>1 DEF Task
    <3>. QED BY <1>1, <3>1, <3>2 DEF Confirming
  <2>3. CASE BookInvestment(w)
    <3>1. task[w].pc = "book" /\ investment' = [investment EXCEPT ![InvestmentOf[task[w].found]] = "CONFIRMED"]
      BY <2>3 DEF BookInvestment
    <3>2. investment'[i] = "FAILED"
      BY <1>1, <3>1 DEF IInv, Shapes, Confirming
    <3>3. ~ ReadInvestment(w) /\ ~ ReadDeal(w)
      BY <3>1 DEF ReadInvestment, ReadDeal
    <3>4. task'[w].pc \notin Confirming /\ \A v \in Workers \ {w} : task'[v] = task[v]
      BY <1>5, <3>3, OnlyReadsConfirm DEF Serves
    <3>. QED BY <1>1, <3>2, <3>4
  <2>4. CASE ~ ReadInvestment(w) /\ ~ ReadDeal(w) /\ ~ BookInvestment(w)
    BY <1>1, <1>5, <2>4, OnlyReadsConfirm, BooksKept DEF Serves
  <2>. QED BY <2>1, <2>2, <2>3, <2>4
<1>. QED BY <1>3, <1>4, <1>5, StepOf

LEMMA ClearStays ==
    ASSUME IInv, traffic.atOnce = 1, [Step]_vars, NEW p \in Payments, Clear(p),
           \A v \in Workers : ~ Charge(v) /\ ~ ChargeUnanswered(v)
    PROVE  (Clear(p))'
<1>1. CASE Exempt(p)
  BY <1>1, ExemptStays DEF Clear
<1>2. CASE \A v \in Workers : ~ Active(v, p)
  BY <1>2, ActiveBefore DEF Clear
<1>. QED BY <1>1, <1>2 DEF Clear

LEMMA GoesOn ==
    ASSUME IInv, NEW w \in Workers, NEW t \in Task, NEW pc, Continue(w, t, pc)
    PROVE  /\ task'[w].pc = pc
           /\ pc # "end" =>
                 /\ task'[w].kind = t.kind /\ task'[w].payment = t.payment
                 /\ task'[w].found = t.found /\ task'[w].seen = t.seen
                 /\ task'[w].event = t.event
<1>1. task \in [Workers -> Task]
  BY DEF IInv, Shapes
<1>2. CASE pc = "end"
  BY <1>1, <1>2 DEF Continue, Idle
<1>3. CASE pc # "end"
  BY <1>1, <1>3 DEF Continue, Task
<1>. QED BY <1>2, <1>3

LEMMA ServedAlone ==
    ASSUME IInv, Alone, NEW w \in Workers, Serves(w)
    PROVE  /\ \A v \in Workers \ {w} : task'[v] = task[v] /\ task[v].pc \in {"idle", "end"}
           /\ \A v \in Workers : Charge(v) \/ ChargeUnanswered(v) => v = w
  BY ServedIsBusy DEF Alone, Busy, Charge, ChargeUnanswered

LEMMA OnceOfServed ==
    ASSUME IInv, Alone, Alone', NEW w \in Workers, Serves(w),
           faults' = 0 => AllHeld' /\ (Steady(w))'
    PROVE  OnceInv'
<1>1. ASSUME NEW v \in Workers \ {w} PROVE (Steady(v))'
  <2>1. task'[v].pc \in {"idle", "end"}
    BY ServedAlone
  <2>. QED BY <2>1 DEF Steady
<1>. QED BY <1>1 DEF OnceInv

\* A payment that carries no charge it is processed with has none that counts.
LEMMA UnheldIsClear ==
    ASSUME AllHeld, NEW p \in Payments, \A v \in Workers : task[v].pc # "record",
           \/ payment[p].status \notin {"PROCESSING", "COMPLETED"}
           \/ \A v \in Workers : payment[p].ref = v => charge[v] \notin {"open", "paid"}
    PROVE  Clear(p)
  BY DEF AllHeld, Clear, Held, Active

LEMMA HeldStays ==
    ASSUME IInv, traffic.atOnce = 1, [Step]_vars, AllHeld, NEW p \in Payments,
           \A v \in Workers : ~ Charge(v) /\ ~ ChargeUnanswered(v),
           \A v \in Workers : Active(v, p) /\ Held(v, p) => (Held(v, p))'
    PROVE  (Exempt(p) \/ \A v \in Workers : Active(v, p) => Held(v, p))'
<1>1. CASE Exempt(p)
  BY <1>1, ExemptStays
<1>2. CASE \A v \in Workers : Active(v, p) => Held(v, p)
  BY <1>2, ActiveBefore
<1>. QED BY <1>1, <1>2 DEF AllHeld

LEMMA ClearIsHeld ==
    ASSUME NEW p \in Payments, (Clear(p))'
    PROVE  (Exempt(p) \/ \A v \in Workers : Active(v, p) => Held(v, p))'
  BY DEF Clear

\* A step of a request that leaves payments and charges alone.
LEMMA HeldByAll ==
    ASSUME IInv, traffic.atOnce = 1, Alone, AllHeld, NEW w \in Workers, Serves(w), [Step]_vars,
           task[w].pc \notin {"charge", "record"}, UNCHANGED payment
    PROVE  AllHeld'
<1>1. \A v \in Workers : ~ Charge(v) /\ ~ ChargeUnanswered(v)
  BY ServedAlone DEF Charge, ChargeUnanswered
<1>2. ASSUME NEW p \in Payments, NEW v \in Workers, Held(v, p) PROVE (Held(v, p))'
  BY <1>2, ServedAlone DEF Held
<1>3. ASSUME NEW p \in Payments
      PROVE  (Exempt(p) \/ \A v \in Workers : Active(v, p) => Held(v, p))'
  BY <1>1, <1>2, HeldStays
<1>. QED BY <1>3 DEF AllHeld

LEMMA ServesIsStep ==
    ASSUME NEW w \in Workers, Serves(w)
    PROVE  [Step]_vars
  BY DEF Serves, Step

LEMMA OnceOfLoad ==
    ASSUME IInv, traffic.atOnce = 1, OnceInv, faults = 0, NEW w \in Workers, Load(w)
    PROVE  AllHeld' /\ (Steady(w))'
<1>1. PICK p \in Payments : p = task[w].payment
  BY DEF IInv, Grounded, Load
<1>2. Serves(w) /\ [Step]_vars /\ task[w].pc = "load" /\ UNCHANGED <<payment, charge>>
  BY ServesIsStep DEF Serves, Work, Load, store
<1>3. AllHeld'
  BY <1>2, HeldByAll DEF OnceInv
<1>. DEFINE t == [task[w] EXCEPT !.seen = payment[p]]
            pc == IF Processable(payment[p].status) THEN "attempt" ELSE "end"
<1>4. Continue(w, t, pc) /\ t \in Task /\ t.payment = p
  BY <1>1 DEF Load, IInv, Shapes, Task
<1>5. task'[w].pc = pc /\ (pc # "end" => task'[w].payment = p)
  <2>. HIDE DEF t, pc
  <2>. QED BY <1>4, GoesOn
<1>6. pc = "attempt" => (Clear(p))'
  <2>1. pc = "attempt" => Clear(p)
    BY <1>2, ServedAlone, UnheldIsClear DEF OnceInv, Processable
  <2>2. \A v \in Workers : ~ Charge(v) /\ ~ ChargeUnanswered(v)
    BY <1>2, ServedAlone DEF OnceInv, Charge, ChargeUnanswered
  <2>. QED BY <1>2, <2>1, <2>2, ClearStays
<1>7. (Steady(w))'
  BY <1>5, <1>6 DEF Steady
<1>. QED BY <1>3, <1>7

LEMMA OnceOfCharging ==
    ASSUME IInv, traffic.atOnce = 1, OnceInv, faults = 0, NEW w \in Workers,
           CreateAttempt(w) \/ ChargeRejected(w)
    PROVE  AllHeld' /\ (Steady(w))'
<1>1. PICK p \in Payments : p = task[w].payment
  BY DEF IInv, Grounded, CreateAttempt, ChargeRejected
<1>2. /\ Serves(w) /\ [Step]_vars /\ UNCHANGED <<payment, charge>>
      /\ task[w].pc \in {"attempt", "charge"}
  BY ServesIsStep DEF Serves, Work, CreateAttempt, ChargeRejected, store
<1>3. Clear(p)
  BY <1>1, <1>2 DEF OnceInv, Steady
<1>4. \A v \in Workers : ~ Charge(v) /\ ~ ChargeUnanswered(v)
  <2>1. charge[w] = "none" /\ charge'[w] = "none"
    BY <1>2 DEF IInv, Grounded
  <2>2. ~ Charge(w) /\ ~ ChargeUnanswered(w)
    BY <2>1 DEF Charge, ChargeUnanswered, NewCharge, IInv, Shapes
  <2>. QED BY <1>2, <2>2, ServedAlone DEF OnceInv
<1>5. (Clear(p))'
  BY <1>2, <1>3, <1>4, ClearStays
<1>6. AllHeld'
  <2>1. ASSUME NEW q \in Payments, NEW v \in Workers, Held(v, q) PROVE (Held(v, q))'
    BY <1>2, <2>1, ServedAlone DEF Held, OnceInv
  <2>2. ASSUME NEW q \in Payments
        PROVE  (Exempt(q) \/ \A v \in Workers : Active(v, q) => Held(v, q))'
    BY <1>2, <1>4, <2>1, HeldStays DEF OnceInv
  <2>. QED BY <2>2 DEF AllHeld
<1>7. task'[w].pc \in {"charge", "rejected"} /\ task'[w].payment = p
  <2>1. PICK pc \in {"charge", "rejected"} : Continue(w, task[w], pc)
    BY DEF CreateAttempt, ChargeRejected, Goto
  <2>. QED BY <1>1, <2>1, GoesOn DEF IInv, Shapes
<1>8. (Steady(w))'
  BY <1>5, <1>7 DEF Steady
<1>. QED BY <1>6, <1>8

LEMMA OnceOfCharge ==
    ASSUME IInv, traffic.atOnce = 1, OnceInv, faults = 0, NEW w \in Workers, Charge(w)
    PROVE  AllHeld' /\ (Steady(w))'
<1>1. PICK p \in Payments : p = task[w].payment
  BY DEF IInv, Grounded, Charge
<1>2. /\ Serves(w) /\ [Step]_vars /\ UNCHANGED payment /\ task[w].pc = "charge"
      /\ \A v \in Workers \ {w} : ~ Charge(v) /\ ~ ChargeUnanswered(v)
  BY ServesIsStep, ServedAlone DEF Serves, Work, Charge, OnceInv
<1>3. task'[w].pc = "record" /\ task'[w].payment = p
  BY <1>1, GoesOn DEF Charge, Goto, IInv, Shapes
<1>4. ASSUME NEW q \in Payments, NEW v \in Workers \ {w}, Active(v, q)' PROVE Active(v, q)
  BY <1>2, <1>4, ActiveBefore
<1>5. Exempt(p)' \/ \A v \in Workers : Active(v, p)' => v = w
  <2>1. Clear(p)
    BY <1>1, <1>2 DEF OnceInv, Steady
  <2>. QED BY <1>2, <1>4, <2>1, ExemptStays DEF Clear
<1>6. ASSUME NEW q \in Payments
      PROVE  (Exempt(q) \/ \A v \in Workers : Active(v, q) => Held(v, q))'
  <2>1. CASE Exempt(q)
    BY <1>2, <2>1, ExemptStays
  <2>2. ASSUME \A v \in Workers : Active(v, q) => Held(v, q), NEW v \in Workers, Active(v, q)'
        PROVE  Held(v, q)'
    <3>1. CASE v = w
      BY <1>3, <3>1 DEF Held
    <3>2. CASE v # w
      BY <1>2, <1>4, <2>2, <3>2, ServedAlone DEF Held, OnceInv
    <3>. QED BY <3>1, <3>2
  <2>. QED BY <2>1, <2>2 DEF OnceInv, AllHeld
<1>7. (Steady(w))'
  BY <1>3, <1>5 DEF Steady
<1>. QED BY <1>6, <1>7 DEF AllHeld

LEMMA OnceOfRecordReference ==
    ASSUME IInv, traffic.atOnce = 1, OnceInv, faults = 0, NEW w \in Workers, RecordReference(w)
    PROVE  AllHeld' /\ (Steady(w))'
<1>1. PICK p \in Payments : p = task[w].payment
  BY DEF IInv, Grounded, RecordReference
<1>2. /\ Serves(w) /\ [Step]_vars /\ task[w].pc = "record"
      /\ payment' = [payment EXCEPT ![p] = [status |-> "PROCESSING", ref |-> w]]
      /\ \A v \in Workers : ~ Charge(v) /\ ~ ChargeUnanswered(v)
  <2>1. Serves(w) /\ task[w].pc = "record"
    BY DEF Serves, Work, RecordReference
  <2>2. \A v \in Workers : ~ Charge(v) /\ ~ ChargeUnanswered(v)
    BY <2>1, ServedAlone DEF OnceInv, Charge, ChargeUnanswered
  <2>. QED BY <1>1, <2>1, <2>2, ServesIsStep DEF RecordReference
<1>3. /\ payment'[p].ref = w /\ payment'[p].status = "PROCESSING"
      /\ \A q \in Payments \ {p} : payment'[q] = payment[q]
  BY <1>2 DEF IInv, Shapes
<1>4. ASSUME NEW q \in Payments
      PROVE  (Exempt(q) \/ \A v \in Workers : Active(v, q) => Held(v, q))'
  <2>1. CASE q = p
    <3>1. CASE Exempt(p)
      BY <1>2, <2>1, <3>1, ExemptStays
    <3>2. CASE \A v \in Workers : Active(v, p) => v = w
      <4>1. ASSUME NEW v \in Workers, Active(v, p)' PROVE Held(v, p)'
        BY <1>2, <1>3, <3>2, <4>1, ActiveBefore DEF Held
      <4>. QED BY <2>1, <4>1
    <3>. QED BY <1>1, <1>2, <3>1, <3>2 DEF OnceInv, Steady
  <2>2. CASE q # p
    <3>1. ASSUME NEW v \in Workers, Active(v, q), Held(v, q) PROVE (Held(v, q))'
      BY <1>1, <1>2, <1>3, <2>2, <3>1, ServedAlone DEF Held, Active, OnceInv
    <3>. QED BY <1>2, <3>1, HeldStays DEF OnceInv
  <2>. QED BY <2>1, <2>2
<1>5. CASE p \in Inline
  <2>. DEFINE t == [task[w] EXCEPT !.event = InlineEvent(w)]
  <2>1. t \in Task /\ t.event = InlineEvent(w) /\ Continue(w, t, "lookup")
    BY <1>1, <1>5 DEF RecordReference, IInv, Shapes, Task, InlineEvent, Event
  <2>. HIDE DEF t
  <2>2. task'[w].pc = "lookup" /\ task'[w].event = InlineEvent(w)
    BY <2>1, GoesOn
  <2>3. (Steady(w))'
    BY <2>2 DEF Steady, Verdict, InlineEvent
  <2>. QED BY <1>4, <2>3 DEF AllHeld
<1>6. CASE p \notin Inline
  <2>1. task'[w].pc = "reread"
    BY <1>1, <1>6, GoesOn DEF RecordReference, Goto, IInv, Shapes
  <2>2. (Steady(w))'
    BY <2>1 DEF Steady
  <2>. QED BY <1>4, <2>2 DEF AllHeld
<1>. QED BY <1>5, <1>6

LEMMA OnceOfCatchError ==
    ASSUME IInv, traffic.atOnce = 1, OnceInv, faults = 0, NEW w \in Workers, CatchError(w)
    PROVE  AllHeld' /\ (Steady(w))'
<1>1. /\ Serves(w) /\ [Step]_vars /\ UNCHANGED <<payment, charge>> /\ task[w].pc \in {"rejected", "catch"}
  BY ServesIsStep DEF Serves, Work, CatchError
<1>2. PICK p \in Payments : p = task[w].payment
  BY <1>1 DEF IInv, Grounded
<1>3. AllHeld'
  BY <1>1, HeldByAll DEF OnceInv
<1>4. (Clear(p))'
  <2>1. \A v \in Workers : ~ Charge(v) /\ ~ ChargeUnanswered(v)
    BY <1>1, ServedAlone DEF OnceInv, Charge, ChargeUnanswered
  <2>. QED BY <1>1, <1>2, <2>1, ClearStays DEF OnceInv, Steady
<1>. DEFINE t == Caught(w)
<1>5. t \in Task /\ t.found = p /\ Continue(w, t, "fail")
  BY <1>1, <1>2, CaughtIsTask DEF CatchError
<1>. HIDE DEF t
<1>6. task'[w].pc = "fail" /\ task'[w].found = p
  BY <1>5, GoesOn
<1>7. (Steady(w))'
  BY <1>4, <1>6 DEF Steady
<1>. QED BY <1>3, <1>7

\* Failing and refunding need a payment without a charge that counts.
LEMMA OnceOfClosing ==
    ASSUME IInv, traffic.atOnce = 1, OnceInv, faults = 0, NEW w \in Workers,
           FailPayment(w) \/ RefundEvent(w)
    PROVE  AllHeld' /\ (Steady(w))'
<1>1. PICK p \in Payments : p = task[w].found
  BY DEF IInv, Grounded, FailPayment, RefundEvent
<1>2. /\ Serves(w) /\ [Step]_vars /\ task[w].pc \in {"fail", "refund"}
      /\ \A q \in Payments \ {p} : payment'[q] = payment[q]
  BY <1>1, ServesIsStep DEF Serves, Work, FailPayment, RefundEvent, IInv, Shapes
<1>3. \A v \in Workers : ~ Charge(v) /\ ~ ChargeUnanswered(v)
  BY <1>2, ServedAlone DEF OnceInv, Charge, ChargeUnanswered
<1>4. (Clear(p))'
  BY <1>1, <1>2, <1>3, ClearStays DEF OnceInv, Steady
<1>5. ASSUME NEW q \in Payments
      PROVE  (Exempt(q) \/ \A v \in Workers : Active(v, q) => Held(v, q))'
  <2>1. CASE q = p
    BY <1>4, <2>1, ClearIsHeld
  <2>2. CASE q # p
    <3>1. ASSUME NEW v \in Workers, Held(v, q) PROVE (Held(v, q))'
      BY <1>2, <2>2, <3>1, ServedAlone DEF Held, OnceInv
    <3>. QED BY <1>2, <1>3, <3>1, HeldStays DEF OnceInv
  <2>. QED BY <2>1, <2>2
<1>6. task'[w].pc \in {"mark", "end"}
  <2>1. PICK pc \in {"mark", "end"} : Continue(w, task[w], pc)
    BY DEF FailPayment, RefundEvent, Goto
  <2>. QED BY <2>1, GoesOn DEF IInv, Shapes
<1>7. (Steady(w))'
  BY <1>6 DEF Steady
<1>. QED BY <1>5, <1>7 DEF AllHeld

LEMMA OnceOfLookUpEvent ==
    ASSUME IInv, traffic.atOnce = 1, OnceInv, faults = 0, NEW w \in Workers, LookUpEvent(w)
    PROVE  AllHeld' /\ (Steady(w))'
<1>1. /\ Serves(w) /\ [Step]_vars /\ UNCHANGED <<payment, charge, webhook>>
      /\ task[w].pc = "lookup" /\ task[w] \in Task
  BY ServesIsStep DEF Serves, Work, LookUpEvent, store, IInv, Shapes
<1>2. AllHeld'
  BY <1>1, HeldByAll DEF OnceInv
<1>3. PICK e \in Event : e = task[w].event
  BY <1>1 DEF IInv, Grounded
<1>4. Verdict(e)'
  BY <1>1, <1>3 DEF OnceInv, Steady, Verdict
<1>5. task[w].kind = "process" => e.charge = w
  BY <1>1, <1>3 DEF OnceInv, Steady
<1>6. CASE webhook[e] # "none"
  <2>1. task'[w].pc = "end"
    BY <1>1, <1>3, <1>6, GoesOn DEF LookUpEvent, Goto
  <2>2. (Steady(w))'
    BY <2>1 DEF Steady
  <2>. QED BY <1>2, <2>2
<1>7. CASE webhook[e] = "none"
  <2>1. PICK p \in Payments \cup {NoPayment} :
            /\ p # NoPayment => payment[p].ref = e.charge
            /\ Continue(w, [task[w] EXCEPT !.found = p,
                              !.seen = IF p = NoPayment THEN NoPayment ELSE payment[p]], "store")
    BY <1>3, <1>7, ConfigurationAssumption DEF LookUpEvent
  <2>. DEFINE s == IF p = NoPayment THEN NoPayment ELSE payment[p]
              t == [task[w] EXCEPT !.found = p, !.seen = s]
  <2>2. s \in Row \cup {NoPayment}
    BY <2>1 DEF IInv, Shapes
  <2>3. t \in Task /\ t.found = p /\ t.event = e /\ t.kind = task[w].kind /\ Continue(w, t, "store")
    BY <1>1, <1>3, <2>1, <2>2 DEF Task
  <2>. HIDE DEF t
  <2>4. /\ task'[w].pc = "store" /\ task'[w].found = p /\ task'[w].event = e
        /\ task'[w].kind = task[w].kind
    BY <2>3, GoesOn
  <2>5. p # NoPayment => payment'[p].ref = e.charge
    BY <1>1, <2>1
  <2>6. webhook'[e] = "none"
    BY <1>1, <1>7
  <2>7. (Steady(w))'
    BY <1>4, <1>5, <2>4, <2>5, <2>6 DEF Steady
  <2>. QED BY <1>2, <2>7
<1>. QED BY <1>6, <1>7

LEMMA OnceOfStoreEvent ==
    ASSUME IInv, traffic.atOnce = 1, OnceInv, faults = 0, NEW w \in Workers, StoreEvent(w)
    PROVE  AllHeld' /\ (Steady(w))'
<1>1. /\ Serves(w) /\ [Step]_vars /\ UNCHANGED <<payment, charge>>
      /\ task[w].pc = "store" /\ task[w] \in Task /\ webhook[task[w].event] = "none"
  BY ServesIsStep DEF Serves, Work, StoreEvent, IInv, Shapes, OnceInv, Steady
<1>2. AllHeld'
  BY <1>1, HeldByAll DEF OnceInv
<1>3. PICK p \in Payments \cup {NoPayment} : p = task[w].found
  BY <1>1 DEF Task
<1>4. PICK e \in Event : e = task[w].event
  BY <1>1 DEF IInv, Grounded
<1>5. /\ Verdict(e) /\ (task[w].kind = "process" => e.charge = w)
      /\ p # NoPayment => payment[p].ref = e.charge /\ MadeFor(e.charge, p)
  BY <1>1, <1>3, <1>4 DEF OnceInv, Steady, IInv, Grounded
<1>. DEFINE pc == EventStep(w)
<1>6. Continue(w, task[w], pc)
  BY <1>1 DEF StoreEvent, Goto
<1>7. /\ pc \in {"mark", "fail", "refund", "settle", "end"}
      /\ pc \in {"fail", "refund", "settle"} => p \in Payments
      /\ pc = "fail" => e.type = "FAILED"
      /\ pc = "refund" => e.type = "REFUND"
  BY <1>3, <1>4 DEF EventStep, Finalize, Returned, Event
<1>. HIDE DEF pc
<1>8. task'[w].pc = pc /\ (pc # "end" => task'[w].found = p /\ task'[w].kind = task[w].kind
                                         /\ task'[w].payment = task[w].payment)
  BY <1>1, <1>3, <1>6, GoesOn
<1>9. pc \in {"fail", "refund"} => (Clear(p))'
  <2>1. CASE pc \notin {"fail", "refund"}
    BY <2>1
  <2>2. CASE pc \in {"fail", "refund"}
    <3>1. p \in Payments /\ p # NoPayment /\ charge[e.charge] \notin {"open", "paid"}
      BY <1>5, <1>7, <2>2, ConfigurationAssumption DEF Verdict
    <3>2. \A v \in Workers : task[v].pc # "record"
      BY <1>1, ServedAlone DEF OnceInv
    <3>3. Clear(p)
      BY <1>5, <3>1, <3>2, UnheldIsClear DEF OnceInv
    <3>4. \A v \in Workers : ~ Charge(v) /\ ~ ChargeUnanswered(v)
      BY <1>1, ServedAlone DEF OnceInv, Charge, ChargeUnanswered
    <3>5. (Clear(p))'
      BY <1>1, <3>1, <3>3, <3>4, ClearStays
    <3>. QED BY <3>5
  <2>. QED BY <2>1, <2>2
<1>10. pc = "settle" /\ task[w].kind = "process" => p = task[w].payment
  BY <1>5, <1>7, ConfigurationAssumption DEF MadeFor
<1>11. (Steady(w))'
  BY <1>7, <1>8, <1>9, <1>10 DEF Steady
<1>. QED BY <1>2, <1>11

LEMMA OnceOfMarkProcessed ==
    ASSUME IInv, traffic.atOnce = 1, OnceInv, faults = 0, NEW w \in Workers, MarkProcessed(w)
    PROVE  AllHeld' /\ (Steady(w))'
<1>1. Serves(w) /\ [Step]_vars /\ UNCHANGED payment /\ task[w].pc = "mark" /\ task[w] \in Task
  BY ServesIsStep DEF Serves, Work, MarkProcessed, IInv, Shapes
<1>2. AllHeld'
  BY <1>1, HeldByAll DEF OnceInv
<1>3. task'[w].pc = "end"
  BY <1>1, GoesOn DEF MarkProcessed, Goto
<1>. QED BY <1>2, <1>3 DEF Steady

LEMMA OnceOfReread ==
    ASSUME IInv, traffic.atOnce = 1, OnceInv, faults = 0, NEW w \in Workers, Reread(w)
    PROVE  AllHeld' /\ (Steady(w))'
<1>1. /\ Serves(w) /\ [Step]_vars /\ UNCHANGED payment
      /\ task[w].pc = "reread" /\ task[w] \in Task
  BY ServesIsStep DEF Serves, Work, Reread, store, IInv, Shapes
<1>2. AllHeld'
  BY <1>1, HeldByAll DEF OnceInv
<1>3. PICK p \in Payments : p = task[w].payment /\ p = task[w].found
  BY <1>1 DEF IInv, Grounded
<1>. DEFINE t == [task[w] EXCEPT !.seen = payment[p]]
<1>4. /\ t \in Task /\ t.found = p /\ t.seen = payment[p]
      /\ \E pc \in {"end", "ask"} : Continue(w, t, pc)
  BY <1>1, <1>3 DEF Reread, IInv, Shapes, Task
<1>. HIDE DEF t
<1>5. task'[w].pc \in {"end", "ask"} /\ (task'[w].pc = "ask" => task'[w].found = p /\ task'[w].seen = payment[p])
  BY <1>4, GoesOn
<1>6. (Steady(w))'
  BY <1>1, <1>5 DEF Steady
<1>. QED BY <1>2, <1>6

LEMMA OnceOfAsk ==
    ASSUME IInv, traffic.atOnce = 1, OnceInv, faults = 0, NEW w \in Workers, Ask(w)
    PROVE  AllHeld' /\ (Steady(w))'
<1>1. /\ Serves(w) /\ [Step]_vars /\ UNCHANGED <<payment, charge>>
      /\ task[w].pc = "ask" /\ task[w] \in Task
  BY ServesIsStep DEF Serves, Work, Ask, store, IInv, Shapes
<1>2. AllHeld'
  BY <1>1, HeldByAll DEF OnceInv
<1>3. PICK p \in Payments : p = task[w].payment /\ p = task[w].found
  BY <1>1 DEF IInv, Grounded
<1>4. payment[p].ref = task[w].seen.ref
  BY <1>1, <1>3 DEF OnceInv, Steady
<1>5. PICK pc \in {"settle", "mark", "fail", "end"} :
          /\ Continue(w, task[w], pc)
          /\ pc = "fail" => charge[task[w].seen.ref] = "declined"
  BY DEF Ask, Goto, Finalize, Returned
<1>6. task'[w].pc = pc /\ (pc # "end" => task'[w].found = p /\ task'[w].payment = p)
  BY <1>1, <1>3, <1>5, GoesOn
<1>7. pc = "fail" => (Clear(p))'
  <2>1. \A v \in Workers : task[v].pc # "record" /\ ~ Charge(v) /\ ~ ChargeUnanswered(v)
    BY <1>1, ServedAlone DEF OnceInv, Charge, ChargeUnanswered
  <2>2. pc = "fail" => Clear(p)
    BY <1>4, <1>5, <2>1, UnheldIsClear DEF OnceInv
  <2>. QED BY <1>1, <2>1, <2>2, ClearStays
<1>8. (Steady(w))'
  BY <1>5, <1>6, <1>7 DEF Steady
<1>. QED BY <1>2, <1>8

LEMMA OnceOfSettle ==
    ASSUME IInv, traffic.atOnce = 1, OnceInv, faults = 0, NEW w \in Workers, Settle(w)
    PROVE  AllHeld' /\ (Steady(w))'
<1>1. PICK p \in Payments : p = task[w].found
  BY DEF IInv, Grounded, Settle
<1>2. /\ Serves(w) /\ [Step]_vars /\ task[w].pc = "settle" /\ task[w] \in Task
      /\ payment'[p].ref = payment[p].ref /\ payment'[p].status = "COMPLETED"
      /\ \A q \in Payments \ {p} : payment'[q] = payment[q]
  <2>1. Serves(w) /\ [Step]_vars /\ task[w].pc = "settle" /\ task[w] \in Task
    BY ServesIsStep DEF Serves, Work, Settle, IInv, Shapes
  <2>2. payment' = [payment EXCEPT ![p].status = "COMPLETED"] /\ payment[p] \in Row
        /\ payment \in [Payments -> Row]
    BY <1>1 DEF Settle, IInv, Shapes
  <2>. QED BY <2>1, <2>2 DEF Row
<1>3. \A v \in Workers : ~ Charge(v) /\ ~ ChargeUnanswered(v)
  BY <1>2, ServedAlone DEF OnceInv, Charge, ChargeUnanswered
<1>4. ASSUME NEW q \in Payments
      PROVE  (Exempt(q) \/ \A v \in Workers : Active(v, q) => Held(v, q))'
  <2>1. ASSUME NEW v \in Workers, Held(v, q) PROVE (Held(v, q))'
    <3>1. CASE q = p
      BY <1>2, <2>1, <3>1, ServedAlone DEF Held, OnceInv
    <3>2. CASE q # p
      BY <1>2, <2>1, <3>2, ServedAlone DEF Held, OnceInv
    <3>. QED BY <3>1, <3>2
  <2>. QED BY <1>2, <1>3, <2>1, HeldStays DEF OnceInv
<1>5. PICK pc \in {"confirm", "mark", "end"} : Continue(w, task[w], pc)
  BY DEF Settle, Goto, AfterSettlement, Returned
<1>6. task'[w].pc = pc /\ (pc # "end" => task'[w].found = p /\ task'[w].payment = task[w].payment
                                         /\ task'[w].kind = task[w].kind)
  BY <1>1, <1>2, <1>5, GoesOn
<1>7. (Steady(w))'
  BY <1>1, <1>2, <1>5, <1>6 DEF Steady, OnceInv
<1>. QED BY <1>4, <1>7 DEF AllHeld

LEMMA OnceOfReadInvestment ==
    ASSUME IInv, traffic.atOnce = 1, OnceInv, faults = 0, NEW w \in Workers, ReadInvestment(w)
    PROVE  AllHeld' /\ (Steady(w))'
<1>1. /\ Serves(w) /\ [Step]_vars /\ UNCHANGED <<payment, investment>>
      /\ task[w].pc = "confirm" /\ task[w] \in Task
  BY ServesIsStep DEF Serves, Work, ReadInvestment, store, IInv, Shapes
<1>2. AllHeld'
  BY <1>1, HeldByAll DEF OnceInv
<1>3. PICK p \in Payments : p = task[w].found
  BY <1>1 DEF IInv, Grounded
<1>4. /\ InvestmentOf[p] \in Investments
      /\ task[w].kind = "process" => p = task[w].payment
  BY <1>1, <1>3 DEF IInv, Grounded, OnceInv, Steady
<1>. DEFINE pc == ConfirmStep(w, investment[InvestmentOf[p]])
<1>5. Continue(w, task[w], pc)
  BY <1>1, <1>3 DEF ReadInvestment, Goto
<1>6. /\ pc \in {"mark", "end", "catch", "include"}
      /\ pc = "catch" => task[w].kind = "process" /\ investment[InvestmentOf[p]] = "FAILED"
  BY <1>1, <1>4 DEF ConfirmStep, Returned, Thrown, IInv, Shapes
<1>. HIDE DEF pc
<1>7. task'[w].pc = pc /\ (pc # "end" => task'[w].found = p /\ task'[w].payment = task[w].payment
                                         /\ task'[w].kind = task[w].kind)
  BY <1>1, <1>3, <1>5, GoesOn
<1>8. pc = "catch" => (Clear(p))'
  <2>1. pc = "catch" => \A v \in Workers : task'[v].pc \notin Confirming
    BY <1>1, <1>7, ServedAlone DEF OnceInv, Confirming
  <2>2. pc = "catch" => investment'[InvestmentOf[p]] = "FAILED"
    BY <1>1, <1>6
  <2>. QED BY <1>4, <2>1, <2>2 DEF Clear, Exempt
<1>9. (Steady(w))'
  BY <1>4, <1>6, <1>7, <1>8 DEF Steady
<1>. QED BY <1>2, <1>9

LEMMA OnceOfReadDeal ==
    ASSUME IInv, traffic.atOnce = 1, OnceInv, faults = 0, NEW w \in Workers, ReadDeal(w)
    PROVE  AllHeld' /\ (Steady(w))'
<1>1. /\ Serves(w) /\ [Step]_vars /\ UNCHANGED payment
      /\ task[w].pc = "include" /\ task[w] \in Task
  BY ServesIsStep DEF Serves, Work, ReadDeal, store, IInv, Shapes
<1>2. AllHeld'
  BY <1>1, HeldByAll DEF OnceInv
<1>. DEFINE t == [task[w] EXCEPT !.total = deal.total]
<1>3. /\ t \in Task /\ t.found = task[w].found /\ t.kind = task[w].kind
      /\ t.payment = task[w].payment /\ Continue(w, t, "book")
  BY <1>1 DEF ReadDeal, IInv, Shapes, Task
<1>. HIDE DEF t
<1>4. /\ task'[w].pc = "book" /\ task'[w].found = task[w].found
      /\ task'[w].kind = task[w].kind /\ task'[w].payment = task[w].payment
  BY <1>3, GoesOn
<1>5. (Steady(w))'
  BY <1>1, <1>4 DEF OnceInv, Steady
<1>. QED BY <1>2, <1>5

LEMMA OnceOfBookInvestment ==
    ASSUME IInv, traffic.atOnce = 1, OnceInv, faults = 0, NEW w \in Workers, BookInvestment(w)
    PROVE  AllHeld' /\ (Steady(w))'
<1>1. Serves(w) /\ [Step]_vars /\ UNCHANGED payment /\ task[w].pc = "book" /\ task[w] \in Task
  BY ServesIsStep DEF Serves, Work, BookInvestment, IInv, Shapes
<1>2. AllHeld'
  BY <1>1, HeldByAll DEF OnceInv
<1>3. task'[w].pc \in {"mark", "end"}
  <2>1. PICK pc \in {"mark", "end"} : Continue(w, task[w], pc)
    BY DEF BookInvestment, Goto, Returned
  <2>. QED BY <1>1, <2>1, GoesOn
<1>. QED BY <1>2, <1>3 DEF Steady

LEMMA OnceOfServing ==
    ASSUME IInv, traffic.atOnce = 1, OnceInv, NEW w \in Workers, Serves(w)
    PROVE  OnceInv'
<1>1. Alone'
  BY AloneStays, ServesIsStep DEF OnceInv
<1>2. ASSUME faults' = 0 PROVE AllHeld' /\ (Steady(w))'
  <2>1. Work(w) /\ faults = 0
    <3>1. ~ Fault
      BY <1>2 DEF Fault, IInv, Shapes
    <3>2. Work(w)
      BY <3>1 DEF Serves, Die, Throw, ChargeUnanswered
    <3>3. UNCHANGED faults
      BY <3>2 DEF Work, Load, CreateAttempt, Charge, ChargeRejected, RecordReference, CatchError,
                  FailPayment, LookUpEvent, StoreEvent, RefundEvent, MarkProcessed, Reread, Ask,
                  Settle, ReadInvestment, ReadDeal, BookInvestment
    <3>. QED BY <1>2, <3>2, <3>3
  <2>. QED
    BY <2>1, OnceOfLoad, OnceOfCharging, OnceOfCharge, OnceOfRecordReference, OnceOfCatchError,
       OnceOfClosing, OnceOfLookUpEvent, OnceOfStoreEvent, OnceOfMarkProcessed, OnceOfReread,
       OnceOfAsk, OnceOfSettle, OnceOfReadInvestment, OnceOfReadDeal, OnceOfBookInvestment DEF Work
<1>. QED BY <1>1, <1>2, OnceOfServed DEF OnceInv

LEMMA OnceOfBeginning ==
    ASSUME IInv, traffic.atOnce = 1, OnceInv, [Step]_vars, NEW w \in Workers, Begins(w)
    PROVE  OnceInv'
<1>1. /\ Busy = {} /\ UNCHANGED <<store, faults, failing, interrupted>>
      /\ \A v \in Workers \ {w} : task'[v] = task[v]
  BY BeginsOne DEF IInv
<1>2. \A v \in Workers : task[v].pc \in {"idle", "end"}
  BY <1>1 DEF Busy
<1>3. Alone'
  BY AloneStays DEF OnceInv
<1>4. \A v \in Workers : ~ Charge(v) /\ ~ ChargeUnanswered(v)
  BY <1>2 DEF Charge, ChargeUnanswered
<1>5. SUFFICES ASSUME faults = 0 PROVE AllHeld' /\ (Steady(w))'
  <2>1. ASSUME NEW v \in Workers \ {w} PROVE (Steady(v))'
    <3>1. task'[v].pc \in {"idle", "end"}
      BY <1>1, <1>2
    <3>. QED BY <3>1 DEF Steady
  <2>. QED BY <1>1, <1>3, <2>1 DEF OnceInv
<1>6. AllHeld'
  <2>1. ASSUME NEW q \in Payments, NEW v \in Workers, Held(v, q) PROVE (Held(v, q))'
    BY <1>1, <1>2, <2>1 DEF Held, store
  <2>2. ASSUME NEW q \in Payments
        PROVE  (Exempt(q) \/ \A v \in Workers : Active(v, q) => Held(v, q))'
    BY <1>4, <1>5, <2>1, HeldStays DEF OnceInv
  <2>. QED BY <2>2 DEF AllHeld
<1>7. task \in [Workers -> Task]
  BY DEF IInv, Shapes
<1>8. ASSUME NEW p \in Payments, RequestProcess(w, p) PROVE (Steady(w))'
  <2>1. CASE Processable(payment[p].status)
    <3>. DEFINE t == PaymentTask("attempt", "process", p)
    <3>1. t.pc = "attempt" /\ t.payment = p
      BY PaymentTaskIsTask DEF IInv, Pcs
    <3>2. task'[w] = t
      BY <1>7, <1>8, <2>1 DEF RequestProcess, Begin
    <3>. HIDE DEF t
    <3>3. Clear(p)
      BY <1>2, <1>5, <2>1, UnheldIsClear DEF OnceInv, Processable
    <3>4. (Clear(p))'
      BY <1>4, <3>3, ClearStays
    <3>. QED BY <3>1, <3>2, <3>4 DEF Steady
  <2>2. CASE ~ Processable(payment[p].status)
    <3>1. task'[w] = [Idle EXCEPT !.pc = "end", !.payment = p]
      BY <1>7, <1>8, <2>2 DEF RequestProcess, Begin
    <3>2. task'[w].pc = "end"
      BY <3>1 DEF Idle
    <3>. QED BY <3>2 DEF Steady
  <2>. QED BY <2>1, <2>2
<1>9. ASSUME NEW p \in Payments, Reconcile(w, p) PROVE (Steady(w))'
  <2>1. CASE payment[p].ref = NoCharge
    <3>1. task'[w] = PaymentTask("load", "process", p)
      BY <1>7, <1>9, <2>1 DEF Reconcile, Begin
    <3>2. task'[w].pc = "load"
      BY <3>1, PaymentTaskIsTask DEF IInv, Pcs
    <3>. QED BY <3>2 DEF Steady
  <2>2. CASE payment[p].ref # NoCharge
    <3>1. task'[w] = PaymentTask("ask", "reconcile", p)
      BY <1>7, <1>9, <2>2 DEF Reconcile, Begin
    <3>2. task'[w].pc = "ask" /\ task'[w].found = p /\ task'[w].seen = payment[p]
      BY <3>1, PaymentTaskIsTask DEF IInv, Pcs
    <3>3. payment' = payment
      BY <1>1 DEF store
    <3>. QED BY <3>2, <3>3 DEF Steady
  <2>. QED BY <2>1, <2>2
<1>10. ASSUME NEW e \in Event, Deliver(w, e) PROVE (Steady(w))'
  <2>. DEFINE t == [Idle EXCEPT !.pc = "lookup", !.kind = "webhook", !.event = e]
  <2>1. t.pc = "lookup" /\ t.kind = "webhook" /\ t.event = e
    BY DEF Idle
  <2>2. task'[w] = t
    BY <1>7, <1>10 DEF Deliver, Begin
  <2>. HIDE DEF t
  <2>3. Verdict(e)'
    BY <1>1, <1>10 DEF Deliver, Verdict, store, Event
  <2>. QED BY <2>1, <2>2, <2>3 DEF Steady
<1>. QED BY <1>6, <1>8, <1>9, <1>10 DEF Begins

LEMMA OnceOfOutside ==
    ASSUME IInv, traffic.atOnce = 1, OnceInv, [Step]_vars, Outside
    PROVE  OnceInv'
<1>1. UNCHANGED <<task, faults, webhook>>
  BY OutsideKeepsTasks DEF Outside, CreatePayment, Collect, FindPending, FailInvestment, vars, store
<1>2. Alone'
  BY AloneStays DEF OnceInv
<1>3. \A v \in Workers : ~ Charge(v) /\ ~ ChargeUnanswered(v)
  BY <1>1 DEF Charge, ChargeUnanswered, Goto, Continue, IInv, Shapes, Task
<1>4. SUFFICES ASSUME faults = 0 PROVE AllHeld' /\ \A w \in Workers : (Steady(w))'
  BY <1>1, <1>2 DEF OnceInv
<1>5. \A p \in Payments : /\ payment'[p].ref = payment[p].ref
                          /\ payment[p].status \in {"PROCESSING", "COMPLETED"} =>
                                payment'[p].status = payment[p].status
  BY DEF Outside, CreatePayment, Collect, FindPending, FailInvestment, vars, store, IInv, Shapes, Row
<1>6. AllHeld'
  <2>1. ASSUME NEW q \in Payments, NEW v \in Workers, Held(v, q) PROVE (Held(v, q))'
    BY <1>1, <1>5, <2>1 DEF Held
  <2>2. ASSUME NEW q \in Payments
        PROVE  (Exempt(q) \/ \A v \in Workers : Active(v, q) => Held(v, q))'
    BY <1>3, <1>4, <2>1, HeldStays DEF OnceInv
  <2>. QED BY <2>2 DEF AllHeld
<1>7. \A v \in Workers : /\ charge[v] = "declined" => charge'[v] = "declined"
                         /\ charge[v] = "refunded" => charge'[v] = "refunded"
  BY DEF Outside, CreatePayment, Collect, FindPending, FailInvestment, vars, store, IInv, Shapes
<1>8. ASSUME NEW w \in Workers PROVE (Steady(w))'
  <2>1. Steady(w)
    BY <1>4 DEF OnceInv
  <2>2. ASSUME NEW p \in Payments, Clear(p) PROVE (Clear(p))'
    BY <1>3, <2>2, ClearStays
  <2>3. ASSUME task[w].pc \in {"attempt", "charge", "rejected", "catch"} PROVE Clear(task[w].payment)'
    <3>1. PICK p \in Payments : p = task[w].payment
      BY <2>3 DEF IInv, Grounded
    <3>. QED BY <1>1, <2>1, <2>2, <2>3, <3>1 DEF Steady
  <2>4. ASSUME task[w].pc \in {"fail", "refund"} PROVE Clear(task[w].found)'
    <3>1. PICK p \in Payments : p = task[w].found
      BY <2>4 DEF IInv, Grounded
    <3>. QED BY <1>1, <2>1, <2>2, <2>4, <3>1 DEF Steady
  <2>5. ASSUME task[w].pc = "record"
        PROVE  (Exempt(task[w].payment) \/ \A v \in Workers : Active(v, task[w].payment) => v = w)'
    <3>1. PICK p \in Payments : p = task[w].payment
      BY <2>5 DEF IInv, Grounded
    <3>2. (Exempt(p) \/ \A v \in Workers : Active(v, p) => v = w)'
      BY <1>3, <2>1, <2>5, <3>1, ExemptStays, ActiveBefore DEF Steady
    <3>. QED BY <1>1, <3>1, <3>2
  <2>6. ASSUME task[w].pc \in {"lookup", "store"} PROVE Verdict(task[w].event)'
    <3>1. PICK e \in Event : e = task[w].event
      BY <2>6 DEF IInv, Grounded
    <3>2. Verdict(e)'
      BY <1>7, <2>1, <2>6, <3>1 DEF Steady, Verdict, Event
    <3>. QED BY <1>1, <3>1, <3>2
  <2>7. task[w].pc = "store" /\ task[w].found # NoPayment => payment'[task[w].found].ref = task[w].event.charge
    BY <1>5, <2>1 DEF Steady, IInv, Shapes, Task
  <2>8. task[w].pc = "ask" => payment'[task[w].found].ref = task[w].seen.ref
    <3>1. task[w].pc = "ask" => task[w].found \in Payments
      BY DEF IInv, Grounded
    <3>. QED BY <1>5, <2>1, <3>1 DEF Steady
  <2>. QED BY <1>1, <2>1, <2>3, <2>4, <2>5, <2>6, <2>7, <2>8 DEF Steady
<1>. QED BY <1>6, <1>8

LEMMA OnceNext ==
    ASSUME IInv, traffic.atOnce = 1, OnceInv, [Step]_vars
    PROVE  OnceInv'
  BY OnceOfOutside, OnceOfBeginning, OnceOfServing, StepOf

LEMMA OnceIsOnce ==
    ASSUME IInv, traffic.atOnce = 1 => OnceInv
    PROVE  ChargedOnce
<1>. SUFFICES ASSUME NEW p \in Payments, traffic.atOnce = 1, ~ faults > 0,
                     ~ (InvestmentOf[p] \in Investments /\ investment[InvestmentOf[p]] = "FAILED")
              PROVE  Cardinality({v \in Workers : task[v].payment = p
                                    /\ charge[v] \in {"open", "paid"}}) <= 1
  BY DEF ChargedOnce
<1>. DEFINE Counting == {v \in Workers : task[v].payment = p /\ charge[v] \in {"open", "paid"}}
<1>1. faults = 0 /\ ~ Exempt(p)
  BY DEF IInv, Shapes, Exempt
<1>2. \A v \in Counting : Held(v, p)
  BY <1>1 DEF OnceInv, AllHeld, Active
<1>3. ASSUME NEW u \in Counting, NEW v \in Counting, task[u].pc = "record" PROVE u = v
  BY <1>1, <1>3 DEF OnceInv, Steady, Active
<1>4. \A u, v \in Counting : u = v
  BY <1>2, <1>3 DEF Held
<1>5. CASE Counting = {}
  BY <1>5, FS_EmptySet
<1>6. CASE Counting # {}
  <2>1. PICK v : v \in Counting
    BY <1>6
  <2>2. Counting = {v}
    BY <1>4, <2>1
  <2>3. Cardinality(Counting) = 1
    BY <2>2, FS_Singleton
  <2>. QED BY <2>3
<1>. QED BY <1>5, <1>6

\* When requests do not overlap and nothing fails, a payer never stands to pay
\* twice, whatever is retried and however late events arrive.
THEOREM ChargesAreSingle == Spec => []ChargedOnce
<1>. DEFINE OnceOneByOne == traffic.atOnce = 1 => OnceInv
<1>1. Init => OnceOneByOne
  BY DEF Init, Idle, OnceInv, Alone, Busy, AllHeld, Active, Steady
<1>2. IInv /\ OnceOneByOne /\ [Next]_vars => OnceOneByOne'
  BY NextIsStep, OnceNext
<1>3. IInv /\ OnceOneByOne => ChargedOnce
  BY OnceIsOnce
<1>. HIDE DEF OnceOneByOne
<1>. QED BY <1>1, <1>2, <1>3, Invariance, PTL DEF Spec

----------------------------------------------------------------------------
(***************************************************************************)
(* Nobody but a fault stops a settled payment.                             *)
(***************************************************************************)
Finishing == {"confirm", "include", "book"}

\* One request moves: it settles only what it then has in hand, and lets go of a
\* payment only once the investment is PENDING no more, or when it is cut off.
LEMMA HandStays ==
    ASSUME IInv, IInv', SettledIsInHand, NEW w \in Workers,
           \A v \in Workers \ {w} : task'[v] = task[v],
           interrupted \subseteq interrupted',
           \A i \in Investments : investment[i] # "PENDING" => investment'[i] # "PENDING",
           \A p \in Payments :
               \/ posted'[<<"settlement", p>>] = posted[<<"settlement", p>>]
               \/ InvestmentOf[p] = NoInvestment
               \/ task'[w].found = p /\ task'[w].pc \in Finishing,
           task[w].pc \in Finishing =>
               \/ task'[w].found = task[w].found /\ task'[w].pc \in Finishing
               \/ investment'[InvestmentOf[task[w].found]] # "PENDING"
               \/ task[w].found \in interrupted'
    PROVE  SettledIsInHand'
<1>. SUFFICES ASSUME NEW p \in Payments, posted'[<<"settlement", p>>] # 0,
                     InvestmentOf[p] # NoInvestment, investment'[InvestmentOf[p]] = "PENDING",
                     p \notin interrupted'
              PROVE  \E v \in Workers : task'[v].found = p /\ task'[v].pc \in Finishing
  BY DEF SettledIsInHand, Finishing
<1>1. CASE task'[w].found = p /\ task'[w].pc \in Finishing
  BY <1>1
<1>2. CASE posted[<<"settlement", p>>] # 0
  <2>1. InvestmentOf[p] \in Investments
    BY ConfigurationAssumption
  <2>2. investment[InvestmentOf[p]] = "PENDING" /\ p \notin interrupted
    BY <2>1
  <2>3. PICK v \in Workers : task[v].found = p /\ task[v].pc \in Finishing
    BY <1>2, <2>2 DEF SettledIsInHand, Finishing
  <2>4. CASE v = w
    BY <2>3, <2>4
  <2>5. CASE v # w
    BY <2>3, <2>5
  <2>. QED BY <2>4, <2>5
<1>. QED BY <1>1, <1>2

\* A step that moves no request.
LEMMA HandRests ==
    ASSUME IInv, SettledIsInHand, UNCHANGED <<task, posted, interrupted>>,
           \A i \in Investments : investment[i] # "PENDING" => investment'[i] # "PENDING"
    PROVE  SettledIsInHand'
<1>1. ASSUME NEW p \in Payments, InvestmentOf[p] # NoInvestment,
             investment'[InvestmentOf[p]] = "PENDING"
      PROVE  investment[InvestmentOf[p]] = "PENDING"
  BY <1>1, ConfigurationAssumption
<1>. QED BY <1>1 DEF SettledIsInHand

LEMMA HandOfServing ==
    ASSUME IInv, IInv', SettledIsInHand, NEW w \in Workers, Serves(w)
    PROVE  SettledIsInHand'
<1>. DEFINE Others == \A v \in Workers \ {w} : task'[v] = task[v]
            f == task[w].found
<1>1. Others
  BY ServedIsBusy
<1>2. /\ task[w] \in Task
      /\ task[w].pc \in Finishing => f \in Payments /\ InvestmentOf[f] \in Investments
  BY DEF IInv, Shapes, Grounded, Finishing
<1>3. CASE ReadInvestment(w)
  <2>. DEFINE pc == ConfirmStep(w, investment[InvestmentOf[f]])
  <2>1. /\ task[w].pc = "confirm" /\ Continue(w, task[w], pc)
        /\ UNCHANGED <<store, faults, failing, interrupted>>
    BY <1>3 DEF ReadInvestment, Goto
  <2>2. investment[InvestmentOf[f]] = "PENDING" => pc = "include"
    BY DEF ConfirmStep
  <2>. HIDE DEF pc
  <2>3. task'[w].pc = pc /\ (pc # "end" => task'[w].found = f)
    BY <1>2, <2>1, GoesOn
  <2>. QED BY <1>1, <2>1, <2>2, <2>3, HandStays DEF Finishing, store
<1>4. CASE ReadDeal(w)
  <2>. DEFINE t == [task[w] EXCEPT !.total = deal.total]
  <2>1. /\ task[w].pc = "include" /\ Continue(w, t, "book")
        /\ UNCHANGED <<store, faults, failing, interrupted>>
    BY <1>4 DEF ReadDeal
  <2>2. t \in Task /\ t.found = f
    BY <1>2 DEF IInv, Shapes, Task
  <2>. HIDE DEF t
  <2>3. task'[w].pc = "book" /\ task'[w].found = f
    BY <2>1, <2>2, GoesOn
  <2>. QED BY <1>1, <2>1, <2>3, HandStays DEF Finishing, store
<1>5. CASE BookInvestment(w)
  <2>1. /\ task[w].pc = "book" /\ interrupted' = interrupted
        /\ investment' = [investment EXCEPT ![InvestmentOf[f]] = "CONFIRMED"]
        /\ posted' = Post(<<"confirm", InvestmentOf[f]>>)
    BY <1>5 DEF BookInvestment
  <2>2. /\ investment'[InvestmentOf[f]] = "CONFIRMED"
        /\ \A i \in Investments : investment[i] # "PENDING" => investment'[i] # "PENDING"
    BY <1>2, <2>1 DEF IInv, Shapes, Finishing
  <2>3. \A p \in Payments : posted'[<<"settlement", p>>] = posted[<<"settlement", p>>]
    BY <1>2, <2>1, SettlementKeys DEF IInv, Shapes, Post, Finishing
  <2>. QED BY <1>1, <2>1, <2>2, <2>3, HandStays
<1>6. CASE Die(w) \/ Throw(w)
  <2>1. UNCHANGED store /\ Interrupt(w)
    BY <1>6 DEF Die, Throw
  <2>2. interrupted \subseteq interrupted' /\ (task[w].pc \in Finishing => f \in interrupted')
    BY <2>1 DEF Interrupt, Finishing
  <2>. QED BY <1>1, <2>1, <2>2, HandStays DEF store
<1>7. CASE Settle(w)
  <2>. DEFINE pc == AfterSettlement(w, f)
  <2>1. /\ task[w].pc = "settle" /\ Continue(w, task[w], pc) /\ f \in Payments
        /\ posted' = Post(<<"settlement", f>>) /\ UNCHANGED <<investment, interrupted>>
    BY <1>7 DEF Settle, Goto, IInv, Grounded
  <2>2. InvestmentOf[f] # NoInvestment => pc = "confirm"
    BY DEF AfterSettlement
  <2>. HIDE DEF pc
  <2>3. task'[w].pc = pc /\ (pc # "end" => task'[w].found = f)
    BY <1>2, <2>1, GoesOn
  <2>4. \A p \in Payments : p # f => posted'[<<"settlement", p>>] = posted[<<"settlement", p>>]
    BY <2>1, SettlementKeys DEF IInv, Shapes, Post
  <2>5. \A p \in Payments :
           \/ posted'[<<"settlement", p>>] = posted[<<"settlement", p>>]
           \/ InvestmentOf[p] = NoInvestment
           \/ task'[w].found = p /\ task'[w].pc \in Finishing
    BY <2>2, <2>3, <2>4 DEF Finishing
  <2>6. task[w].pc \notin Finishing
    BY <2>1 DEF Finishing
  <2>. QED BY <1>1, <2>1, <2>5, <2>6, HandStays
<1>8. CASE ~ (ReadInvestment(w) \/ ReadDeal(w) \/ BookInvestment(w) \/ Die(w) \/ Throw(w) \/ Settle(w))
  <2>1. task[w].pc \notin Finishing /\ UNCHANGED <<investment, posted, interrupted>>
    BY <1>8 DEF Serves, Work, Load, CreateAttempt, Charge, ChargeRejected, RecordReference,
         CatchError, FailPayment, LookUpEvent, StoreEvent, RefundEvent, MarkProcessed, Reread,
         Ask, ChargeUnanswered, store, Finishing
  <2>. QED BY <1>1, <2>1, HandStays
<1>. QED BY <1>3, <1>4, <1>5, <1>6, <1>7, <1>8

LEMMA HandOfBeginning ==
    ASSUME IInv, IInv', SettledIsInHand, NEW w \in Workers, Begins(w)
    PROVE  SettledIsInHand'
<1>1. \E t : Begin(w, t)
  BY DEF Begins, RequestProcess, Reconcile, Deliver
<1>2. /\ task[w].pc = "idle" /\ UNCHANGED <<store, interrupted>>
      /\ \A v \in Workers \ {w} : task'[v] = task[v]
  BY <1>1 DEF Begin, IInv, Shapes
<1>. QED BY <1>2, HandStays DEF store, Finishing

LEMMA HandNext ==
    ASSUME IInv, IInv', SettledIsInHand, [Step]_vars
    PROVE  SettledIsInHand'
<1>1. CASE Outside
  <2>1. /\ UNCHANGED <<task, posted, interrupted>>
        /\ \A i \in Investments : investment[i] # "PENDING" => investment'[i] # "PENDING"
    BY <1>1 DEF Outside, CreatePayment, Collect, FindPending, FailInvestment, vars, store,
                IInv, Shapes
  <2>. QED BY <2>1, HandRests
<1>. QED BY <1>1, HandOfServing, HandOfBeginning, StepOf

\* finalizePayment: whoever settles a payment has its investment in hand until it
\* is PENDING no more; however requests overlap, only a fault lets go of it.
THEOREM SettledStaysInHand == Spec => []SettledIsInHand
<1>1. Init => SettledIsInHand
  BY SettlementKeys DEF Init, SettledIsInHand
<1>2. IInv /\ SettledIsInHand /\ [Next]_vars => SettledIsInHand'
  BY NextIsStep, StepPreserves, HandNext
<1>. QED BY <1>1, <1>2, Invariance, PTL DEF Spec
=============================================================================
