-------------------------- MODULE Notices_proofs --------------------------
(***************************************************************************)
(* Proofs about Notices, for every number of bookings, requests, messages, *)
(* retries and faults: whoever is told of a booking is told once, but for  *)
(* answers lost on the way, and so is the merchant of a payout.            *)
(***************************************************************************)
EXTENDS Notices, FiniteSetTheorems, TLAPS

-----------------------------------------------------------------------------
(* The mail of a statement.                                                *)

\* A mail is being sent, or has just left, only while the log has none; but
\* for answers and commits that were lost, the one that left is that of the
\* log or of the transaction under way.
MailInv ==
    /\ paid \in BOOLEAN /\ log \in BOOLEAN
    /\ mail \in [state : {"none", "queued", "sending", "sent"}, tries : 0 .. MaxRetries]
    /\ mailed \in Nat
    /\ faults \in [FaultKinds -> Nat] /\ NumberOfFaults <= MaxFaults
    /\ ~paid => mail = NoMail
    /\ mail.state \in {"sending", "sent"} => ~log
    /\ mailed <= (IF log \/ mail.state = "sent" THEN 1 ELSE 0) + faults.timeout + faults.crash

LEMMA FaultTyped ==
    ASSUME faults \in [FaultKinds -> Nat], NEW kind \in FaultKinds, Fault(kind)
    PROVE  /\ faults' \in [FaultKinds -> Nat] /\ NumberOfFaults' <= MaxFaults
           /\ faults'[kind] = faults[kind] + 1
           /\ \A other \in FaultKinds \ {kind} : faults'[other] = faults[other]
<1>1. faults' = [faults EXCEPT ![kind] = @ + 1] /\ NumberOfFaults < MaxFaults
  BY DEF Fault
<1>2. /\ faults' \in [FaultKinds -> Nat] /\ faults'[kind] = faults[kind] + 1
      /\ \A other \in FaultKinds \ {kind} : faults'[other] = faults[other]
  BY <1>1
<1>3. \A k \in FaultKinds : faults[k] \in Nat /\ faults'[k] \in Nat
  BY <1>2
<1>4. {"crash", "broker", "timeout", "repeat"} = FaultKinds
  BY DEF FaultKinds
<1>5. NumberOfFaults' = NumberOfFaults + 1
  BY <1>2, <1>3, <1>4 DEF NumberOfFaults
<1>6. NumberOfFaults \in Nat /\ MaxFaults \in Nat
  BY <1>3, <1>4, BoundsAssumption DEF NumberOfFaults
<1>7. QED
  BY <1>1, <1>2, <1>5, <1>6

LEMMA MailInit == Init => MailInv
<1> SUFFICES ASSUME Init PROVE MailInv
  OBVIOUS
<1>1. MaxRetries \in Nat /\ MaxFaults \in Nat
  BY BoundsAssumption
<1>2. /\ faults \in [FaultKinds -> Nat]
      /\ faults.crash = 0 /\ faults.broker = 0 /\ faults.timeout = 0 /\ faults.repeat = 0
  BY DEF Init, FaultKinds
<1>3. NumberOfFaults <= MaxFaults
  BY <1>1, <1>2 DEF NumberOfFaults
<1>4. NoMail \in [state : {"none", "queued", "sending", "sent"}, tries : 0 .. MaxRetries]
  BY <1>1 DEF NoMail
<1>5. paid = FALSE /\ mail = NoMail /\ log = FALSE /\ mailed = 0
  BY DEF Init
<1>6. NoMail.state = "none"
  BY DEF NoMail
<1>7. paid \in BOOLEAN /\ log \in BOOLEAN /\ ~log
  BY <1>5
<1>8. mailed <= (IF log \/ mail.state = "sent" THEN 1 ELSE 0) + faults.timeout + faults.crash
  BY <1>2, <1>5, <1>6, <1>7
<1>9. QED
  BY <1>2, <1>3, <1>4, <1>5, <1>6, <1>7, <1>8 DEF MailInv

\* A mail that could not be sent is queued again, or given up.
LEMMA RetryTyped ==
    ASSUME MailInv, RetryMail \/ mail' = NoMail, mail.state = "sending"
    PROVE  /\ mail' \in [state : {"none", "queued", "sending", "sent"}, tries : 0 .. MaxRetries]
           /\ mail'.state \in {"queued", "none"} /\ paid
BY BoundsAssumption DEF MailInv, RetryMail, NoMail

LEMMA MailSteps ==
    ASSUME MailInv, [Next]_vars
    PROVE  MailInv'
<1> USE BoundsAssumption DEF FaultKinds
<1>1. CASE UNCHANGED <<statement, faults>>
  BY <1>1 DEF MailInv, statement, NumberOfFaults
<1>2. ASSUME UNCHANGED statement, NEW kind \in FaultKinds, Fault(kind) PROVE MailInv'
  <2>1. /\ faults' \in [FaultKinds -> Nat] /\ NumberOfFaults' <= MaxFaults
        /\ faults'["timeout"] >= faults["timeout"] /\ faults'["crash"] >= faults["crash"]
    BY <1>2, FaultTyped DEF MailInv
  <2>2. faults["timeout"] \in Nat /\ faults["crash"] \in Nat
        /\ faults'["timeout"] \in Nat /\ faults'["crash"] \in Nat
    BY <2>1 DEF MailInv
  <2>3. QED
    BY <1>2, <2>1, <2>2 DEF MailInv, statement
<1>3. CASE MarkPaid
  BY <1>3 DEF MarkPaid, MailInv, NoMail, NumberOfFaults
<1>4. CASE MarkPaidUnqueued
  <2>1. /\ faults' \in [FaultKinds -> Nat] /\ NumberOfFaults' <= MaxFaults
        /\ faults'["timeout"] = faults["timeout"] /\ faults'["crash"] = faults["crash"]
    BY <1>4, FaultTyped DEF MailInv, MarkPaidUnqueued
  <2>2. QED
    BY <1>4, <2>1 DEF MailInv, MarkPaidUnqueued
<1>5. CASE TakeMail
  BY <1>5 DEF TakeMail, MayMail, MailInv, NoMail, NumberOfFaults
<1>6. CASE SendMail
  BY <1>6 DEF SendMail, MailInv, NoMail, NumberOfFaults
<1>7. CASE CommitMail
  BY <1>7 DEF CommitMail, MailInv, NoMail, NumberOfFaults
<1>8. CASE MailNotSent
  BY <1>8, RetryTyped DEF MailNotSent, MailInv, NumberOfFaults
<1>9. CASE MailWithoutAnswer
  <2>1. /\ faults' \in [FaultKinds -> Nat] /\ NumberOfFaults' <= MaxFaults
        /\ faults'["timeout"] = faults["timeout"] + 1 /\ faults'["crash"] = faults["crash"]
    BY <1>9, FaultTyped DEF MailInv, MailWithoutAnswer
  <2>2. faults["timeout"] \in Nat /\ faults["crash"] \in Nat
    BY DEF MailInv
  <2>3. QED
    BY <1>9, <2>1, <2>2, RetryTyped DEF MailInv, MailWithoutAnswer
<1>10. CASE MailLost
  <2>1. /\ faults' \in [FaultKinds -> Nat] /\ NumberOfFaults' <= MaxFaults
        /\ faults'["timeout"] = faults["timeout"] /\ faults'["crash"] = faults["crash"] + 1
    BY <1>10, FaultTyped DEF MailInv, MailLost
  <2>2. faults["timeout"] \in Nat /\ faults["crash"] \in Nat
    BY DEF MailInv
  <2>3. QED
    BY <1>10, <2>1, <2>2 DEF MailInv, MailLost, NoMail
<1>11. CASE MailRepeated
  <2>1. /\ faults' \in [FaultKinds -> Nat] /\ NumberOfFaults' <= MaxFaults
        /\ faults'["timeout"] = faults["timeout"] /\ faults'["crash"] = faults["crash"]
    BY <1>11, FaultTyped DEF MailInv, MailRepeated
  <2>2. QED
    BY <1>11, <2>1 DEF MailInv, MailRepeated, NoMail
<1>12. ASSUME NEW r \in Requests,
              \/ \E b \in Bookings : Confirm(r, b) \/ DemoPaidAgain(r, b)
              \/ RunHook(r)
              \/ \E kind \in {"crash", "broker"} : HookLost(r, kind)
       PROVE  MailInv'
  <2>1. CASE \E b \in Bookings : Confirm(r, b) \/ DemoPaidAgain(r, b)
    BY <1>1, <2>1 DEF Confirm, DemoPaidAgain, statement
  <2>2. CASE RunHook(r)
    BY <1>1, <2>2 DEF RunHook, Notify, Enqueue, statement
  <2>3. CASE \E kind \in {"crash", "broker"} : HookLost(r, kind)
    BY <1>2, <2>3 DEF HookLost
  <2>4. QED
    BY <1>12, <2>1, <2>2, <2>3
<1>13. ASSUME NEW task \in queue, Run(task) \/ SentWithoutAnswer(task) \/ TaskLost(task) PROVE MailInv'
  <2>1. CASE Run(task)
    BY <1>1, <2>1 DEF Run, Send, NotSent, Refused, statement
  <2>2. CASE SentWithoutAnswer(task)
    BY <1>2, <2>2 DEF SentWithoutAnswer
  <2>3. CASE TaskLost(task)
    BY <1>2, <2>3 DEF TaskLost
  <2>4. QED
    BY <1>13, <2>1, <2>2, <2>3
<1>14. CASE UNCHANGED vars
  BY <1>1, <1>14 DEF vars, statement
<1>15. QED
  BY <1>3, <1>4, <1>5, <1>6, <1>7, <1>8, <1>9, <1>10, <1>11, <1>12, <1>13, <1>14 DEF Next, MailStep

\* The merchant is told once of a payout, but for the mail server's answers
\* and the commits of the log that were lost (send_remittance_paid_email_task,
\* which looks at the log under the statement's lock).
THEOREM PayoutsToldOnce == Spec => []PayoutToldOnce
<1>1. MailInv => PayoutToldOnce
  BY DEF MailInv, PayoutToldOnce, FaultKinds
<1>2. MailInv /\ [Next]_vars => MailInv'
  BY MailSteps
<1>3. QED
  BY <1>1, <1>2, MailInit, PTL DEF Spec

-----------------------------------------------------------------------------
(* The messages of a booking.                                              *)

RequestRow == [booking : Bookings \union {"none"}, left : SUBSET Messages,
               hook : {"none", "confirmation", "notification", "queueing", "done"}]
TaskRow == [request : Requests, booking : Bookings, message : Messages, tries : 0 .. MaxRetries]

\* Tasks the broker holds, hooks that have still to queue theirs, and hooks
\* that have still to store the hotel's notification.
Waiting(b, m) == {task \in queue : task.booking = b /\ task.message = m}
Owed(b, m) == {r \in Requests : /\ request[r].hook \in {"confirmation", "queueing"}
                                /\ request[r].booking = b /\ m \in request[r].left}
Notifying(b) == {r \in Requests : /\ request[r].hook \in {"confirmation", "notification"}
                                  /\ request[r].booking = b}

TellTypes ==
    /\ confirmed \subseteq Bookings
    /\ request \in [Requests -> RequestRow]
    /\ \A r \in Requests : request[r].hook # "none" => request[r].booking \in confirmed
    /\ queue \subseteq TaskRow /\ IsFiniteSet(queue)
    /\ sent \in [Bookings -> [Messages -> Nat]]
    /\ news \in [Bookings -> Nat]

\* What has left, what waits and what is owed is one message in all, and one
\* more for each answer that was lost.
Due(b) == IF b \in confirmed THEN 1 + faults.timeout ELSE 0
Told(b, m) == sent[b][m] + Cardinality(Waiting(b, m)) + Cardinality(Owed(b, m)) <= Due(b)

\* Every notification was stored by a request of its own.
Heard(b) ==
    /\ news[b] + Cardinality(Notifying(b)) <= Cardinality(Requests)
    /\ b \notin confirmed => news[b] = 0

TellInv ==
    /\ MailInv /\ TellTypes
    /\ \A b \in Bookings : Heard(b) /\ \A m \in Messages : Told(b, m)

LEMMA FewerOnes ==
    ASSUME NEW S, IsFiniteSet(S), NEW T, T \subseteq S
    PROVE  /\ IsFiniteSet(T) /\ Cardinality(T) <= Cardinality(S)
           /\ Cardinality(T) \in Nat /\ Cardinality(S) \in Nat
BY FS_Subset, FS_CardinalityType

LEMMA OneLess ==
    ASSUME NEW S, IsFiniteSet(S), NEW x \in S, NEW T, T \subseteq S \ {x}
    PROVE  IsFiniteSet(T) /\ Cardinality(T) + 1 <= Cardinality(S)
<1>1. IsFiniteSet(S \ {x}) /\ Cardinality(S \ {x}) = Cardinality(S) - 1 /\ Cardinality(S) \in Nat
  BY FS_RemoveElement, FS_CardinalityType
<1>2. Cardinality(T) <= Cardinality(S \ {x}) /\ IsFiniteSet(T) /\ Cardinality(T) \in Nat
      /\ Cardinality(S \ {x}) \in Nat
  BY <1>1, FewerOnes
<1>3. QED
  BY <1>1, <1>2

LEMMA OneMore ==
    ASSUME NEW S, IsFiniteSet(S), NEW x, NEW T, T \subseteq S \union {x}
    PROVE  IsFiniteSet(T) /\ Cardinality(T) <= Cardinality(S) + 1
<1>1. IsFiniteSet(S \union {x}) /\ Cardinality(S \union {x}) <= Cardinality(S) + 1
  <2>1. Cardinality(S) \in Nat
    BY FS_CardinalityType
  <2>2. IsFiniteSet(S \union {x})
        /\ Cardinality(S \union {x}) = IF x \in S THEN Cardinality(S) ELSE Cardinality(S) + 1
    BY FS_AddElement
  <2>3. QED
    BY <2>1, <2>2
<1>2. Cardinality(T) <= Cardinality(S \union {x}) /\ IsFiniteSet(T) /\ Cardinality(T) \in Nat
      /\ Cardinality(S \union {x}) \in Nat
  BY <1>1, FewerOnes
<1>3. Cardinality(S) \in Nat
  BY FS_CardinalityType
<1>4. QED
  BY <1>1, <1>2, <1>3

\* One for another.
LEMMA OneMoved ==
    ASSUME NEW S, IsFiniteSet(S), NEW x \in S, NEW y, NEW T, T \subseteq (S \ {x}) \union {y}
    PROVE  IsFiniteSet(T) /\ Cardinality(T) <= Cardinality(S)
<1>1. IsFiniteSet(S \ {x}) /\ Cardinality(S \ {x}) + 1 <= Cardinality(S)
  BY OneLess
<1>2. IsFiniteSet(T) /\ Cardinality(T) <= Cardinality(S \ {x}) + 1
  BY <1>1, OneMore
<1>3. Cardinality(S \ {x}) \in Nat /\ Cardinality(S) \in Nat /\ Cardinality(T) \in Nat
  BY <1>1, <1>2, FS_CardinalityType
<1>4. QED
  BY <1>1, <1>2, <1>3

LEMMA CountsTyped ==
    ASSUME TellTypes
    PROVE  \A b \in Bookings :
             /\ IsFiniteSet(Notifying(b)) /\ Cardinality(Notifying(b)) \in Nat /\ news[b] \in Nat
             /\ Cardinality(Notifying(b)) <= Cardinality(Requests) /\ Cardinality(Requests) \in Nat
             /\ \A m \in Messages :
                  /\ IsFiniteSet(Waiting(b, m)) /\ Cardinality(Waiting(b, m)) \in Nat
                  /\ IsFiniteSet(Owed(b, m)) /\ Cardinality(Owed(b, m)) \in Nat
                  /\ sent[b][m] \in Nat
<1> TAKE b \in Bookings
<1>1. IsFiniteSet(Requests)
  BY BoundsAssumption
<1>2. IsFiniteSet(queue)
  BY DEF TellTypes
<1>3. Notifying(b) \subseteq Requests
  BY DEF Notifying
<1>4. ASSUME NEW m \in Messages
      PROVE  /\ IsFiniteSet(Waiting(b, m)) /\ Cardinality(Waiting(b, m)) \in Nat
             /\ IsFiniteSet(Owed(b, m)) /\ Cardinality(Owed(b, m)) \in Nat
             /\ sent[b][m] \in Nat
  <2>1. Waiting(b, m) \subseteq queue /\ Owed(b, m) \subseteq Requests
    BY DEF Waiting, Owed
  <2>2. sent[b][m] \in Nat
    BY DEF TellTypes
  <2>3. QED
    BY <1>1, <1>2, <2>1, <2>2, FewerOnes
<1>5. news[b] \in Nat
  BY DEF TellTypes
<1>6. QED
  BY <1>1, <1>3, <1>4, <1>5, FewerOnes

\* Nothing more is told, waits or is owed.
LEMMA NothingMore ==
    ASSUME MailInv, MailInv', TellTypes, TellTypes', faults'.timeout >= faults.timeout,
           NEW b \in Bookings, b \in confirmed <=> b \in confirmed', NEW m \in Messages, Told(b, m),
           sent'[b][m] = sent[b][m], Waiting(b, m)' \subseteq Waiting(b, m), Owed(b, m)' \subseteq Owed(b, m)
    PROVE  Told(b, m)'
<1>1. /\ IsFiniteSet(Waiting(b, m)) /\ Cardinality(Waiting(b, m)) \in Nat
      /\ IsFiniteSet(Owed(b, m)) /\ Cardinality(Owed(b, m)) \in Nat
      /\ sent[b][m] \in Nat
  BY CountsTyped
<1>2. /\ Cardinality(Waiting(b, m)') <= Cardinality(Waiting(b, m)) /\ Cardinality(Waiting(b, m)') \in Nat
      /\ Cardinality(Owed(b, m)') <= Cardinality(Owed(b, m)) /\ Cardinality(Owed(b, m)') \in Nat
  BY <1>1, FewerOnes
<1>3. Due(b) <= Due(b)' /\ Due(b) \in Nat /\ Due(b)' \in Nat
  <2>1. faults.timeout \in Nat /\ faults'.timeout \in Nat
    BY DEF MailInv, FaultKinds
  <2>2. QED
    BY <2>1 DEF Due
<1>4. QED
  BY <1>1, <1>2, <1>3 DEF Told

\* Nothing more is stored or is to be stored.
LEMMA NoMoreNews ==
    ASSUME TellTypes, NEW b \in Bookings, b \in confirmed => b \in confirmed', Heard(b),
           news'[b] = news[b], Notifying(b)' \subseteq Notifying(b)
    PROVE  Heard(b)'
<1>1. /\ IsFiniteSet(Notifying(b)) /\ Cardinality(Notifying(b)) \in Nat /\ news[b] \in Nat
      /\ Cardinality(Requests) \in Nat
  BY CountsTyped
<1>2. Cardinality(Notifying(b)') <= Cardinality(Notifying(b)) /\ Cardinality(Notifying(b)') \in Nat
  BY <1>1, FewerOnes
<1>3. QED
  BY <1>1, <1>2 DEF Heard

LEMMA ConfirmTells ==
    ASSUME TellInv, MailInv', NEW r \in Requests, NEW b \in Bookings, Confirm(r, b)
    PROVE  TellInv'
<1>1. /\ request[r] = NoRequest /\ b \notin confirmed /\ confirmed' = confirmed \union {b}
      /\ request' = [request EXCEPT ![r] = Hook(b, "confirmation")]
      /\ queue' = queue /\ sent' = sent /\ news' = news /\ faults' = faults
  BY DEF Confirm, Pay
<1>2. MailInv /\ TellTypes /\ \A c \in Bookings : Heard(c) /\ \A m \in Messages : Told(c, m)
  BY DEF TellInv
<1>3. /\ request'[r] = Hook(b, "confirmation") /\ Hook(b, "confirmation") \in RequestRow
      /\ request[r].hook = "none" /\ request'[r].booking = b
      /\ \A q \in Requests \ {r} : request'[q] = request[q]
  BY <1>1, <1>2 DEF TellTypes, NoRequest, Hook, RequestRow
<1>4. TellTypes'
  <2>1. request' \in [Requests -> RequestRow]
    BY <1>1, <1>2, <1>3 DEF TellTypes
  <2>2. \A q \in Requests : request'[q].hook # "none" => request'[q].booking \in confirmed'
    BY <1>1, <1>2, <1>3 DEF TellTypes
  <2>3. QED
    BY <1>1, <1>2, <2>1, <2>2 DEF TellTypes
<1>5. faults'.timeout \in Nat /\ faults'.timeout >= faults.timeout
  BY <1>1, <1>2 DEF MailInv, FaultKinds
<1>6. ASSUME NEW c \in Bookings PROVE Heard(c)'
  <2>1. CASE c = b
    <3>1. news'[c] = 0
      BY <1>1, <1>2, <2>1 DEF Heard
    <3>2. /\ Cardinality(Notifying(c)') <= Cardinality(Requests) /\ Cardinality(Notifying(c)') \in Nat
          /\ Cardinality(Requests) \in Nat
      <4>1. Notifying(c)' \subseteq Requests /\ IsFiniteSet(Requests)
        BY BoundsAssumption DEF Notifying
      <4>2. QED
        BY <4>1, FewerOnes
    <3>3. QED
      BY <1>1, <2>1, <3>1, <3>2 DEF Heard
  <2>2. CASE c # b
    <3>1. Notifying(c)' \subseteq Notifying(c)
      BY <1>3, <2>2 DEF Notifying
    <3>2. QED
      BY <1>1, <1>2, <3>1, NoMoreNews
  <2>3. QED
    BY <2>1, <2>2
<1>7. ASSUME NEW c \in Bookings, NEW m \in Messages PROVE Told(c, m)'
  <2>1. Waiting(c, m)' = Waiting(c, m)
    BY <1>1 DEF Waiting
  <2>2. CASE c = b
    <3>1. /\ sent[c][m] + Cardinality(Waiting(c, m)) + Cardinality(Owed(c, m)) <= 0
      BY <1>1, <1>2, <2>2 DEF Told, Due
    <3>2. Owed(c, m)' \subseteq Owed(c, m) \union {r}
      BY <1>3 DEF Owed
    <3>3. /\ IsFiniteSet(Owed(c, m)) /\ Cardinality(Owed(c, m)) \in Nat
          /\ Cardinality(Waiting(c, m)) \in Nat /\ sent[c][m] \in Nat
      BY <1>2, CountsTyped
    <3>4. Cardinality(Owed(c, m)') <= Cardinality(Owed(c, m)) + 1 /\ Cardinality(Owed(c, m)') \in Nat
      BY <3>2, <3>3, OneMore, FS_CardinalityType
    <3>5. sent'[c][m] + Cardinality(Waiting(c, m)') + Cardinality(Owed(c, m)') <= 1
      BY <1>1, <2>1, <3>1, <3>3, <3>4
    <3>6. Due(c)' = 1 + faults'.timeout
      BY <1>1, <2>2 DEF Due
    <3>7. sent'[c][m] \in Nat /\ Cardinality(Waiting(c, m)') \in Nat
      BY <1>1, <2>1, <3>3
    <3>8. QED
      BY <1>5, <3>4, <3>5, <3>6, <3>7 DEF Told
  <2>3. CASE c # b
    <3>1. Owed(c, m)' \subseteq Owed(c, m) /\ (c \in confirmed <=> c \in confirmed')
      BY <1>1, <1>3, <2>3 DEF Owed
    <3>2. QED
      BY <1>1, <1>2, <1>4, <1>5, <2>1, <3>1, NothingMore
  <2>4. QED
    BY <2>2, <2>3
<1>8. QED
  BY <1>4, <1>6, <1>7 DEF TellInv

\* Requests and tasks of which nothing more is told, waits or is owed.
LEMMA QuietStep ==
    ASSUME TellInv, MailInv', TellTypes', UNCHANGED <<confirmed, sent>>, faults'.timeout >= faults.timeout,
           \A b \in Bookings : /\ news'[b] = news[b] /\ Notifying(b)' \subseteq Notifying(b)
                               /\ \A m \in Messages : /\ Waiting(b, m)' \subseteq Waiting(b, m)
                                                      /\ Owed(b, m)' \subseteq Owed(b, m)
    PROVE  TellInv'
<1>1. MailInv /\ TellTypes /\ \A b \in Bookings : Heard(b) /\ \A m \in Messages : Told(b, m)
  BY DEF TellInv
<1>2. ASSUME NEW b \in Bookings PROVE Heard(b)'
  BY <1>1, NoMoreNews
<1>3. ASSUME NEW b \in Bookings, NEW m \in Messages PROVE Told(b, m)'
  BY <1>1, NothingMore
<1>4. QED
  BY <1>2, <1>3 DEF TellInv

\* The hook or the task of a request ends, or goes on without its message.
LEMMA TimeoutsGrow ==
    ASSUME MailInv, NEW kind \in FaultKinds, Fault(kind)
    PROVE  /\ faults'.timeout >= faults.timeout /\ faults.timeout \in Nat /\ faults'.timeout \in Nat
           /\ kind = "timeout" => faults'.timeout = faults.timeout + 1
<1>1. faults \in [FaultKinds -> Nat] /\ "timeout" \in FaultKinds
  BY DEF MailInv, FaultKinds
<1>2. QED
  BY <1>1, FaultTyped

LEMMA HookLostTells ==
    ASSUME TellInv, MailInv', NEW r \in Requests, NEW kind \in {"crash", "broker"}, HookLost(r, kind)
    PROVE  TellInv'
<1>1. /\ request[r].hook \in {"confirmation", "notification", "queueing"}
      /\ request' = [request EXCEPT ![r].hook = "done", ![r].left = {}]
      /\ confirmed' = confirmed /\ queue' = queue /\ sent' = sent /\ news' = news
      /\ Fault(kind) /\ kind \in FaultKinds
  BY DEF HookLost, FaultKinds
<1>2. MailInv /\ TellTypes
  BY DEF TellInv
<1>3. /\ request'[r] = [booking |-> request[r].booking, hook |-> "done", left |-> {}]
      /\ request'[r] \in RequestRow /\ \A q \in Requests \ {r} : request'[q] = request[q]
      /\ request'[r].booking = request[r].booking /\ request'[r].hook = "done"
  BY <1>1, <1>2 DEF TellTypes, RequestRow
<1>4. TellTypes'
  <2>1. request' \in [Requests -> RequestRow]
    BY <1>1, <1>2, <1>3 DEF TellTypes
  <2>2. \A q \in Requests : request'[q].hook # "none" => request'[q].booking \in confirmed'
    BY <1>1, <1>2, <1>3 DEF TellTypes
  <2>3. QED
    BY <1>1, <1>2, <2>1, <2>2 DEF TellTypes
<1>5. faults'.timeout >= faults.timeout
  BY <1>1, <1>2, TimeoutsGrow
<1>6. \A b \in Bookings : /\ Notifying(b)' \subseteq Notifying(b)
                          /\ \A m \in Messages : Owed(b, m)' \subseteq Owed(b, m)
  BY <1>3 DEF Notifying, Owed
<1>7. \A b \in Bookings, m \in Messages : Waiting(b, m)' \subseteq Waiting(b, m)
  BY <1>1 DEF Waiting
<1>8. QED
  BY <1>1, <1>4, <1>5, <1>6, <1>7, QuietStep

\* Only a booking whose hotel has not heard is notified again.
LEMMA DemoTells ==
    ASSUME TellInv, MailInv', NEW r \in Requests, NEW b \in Bookings, DemoPaidAgain(r, b)
    PROVE  TellInv'
<1>1. /\ request[r] = NoRequest /\ b \in confirmed /\ news[b] = 0
      /\ request' = [request EXCEPT ![r] = Hook(b, "notification")]
      /\ confirmed' = confirmed /\ queue' = queue /\ sent' = sent /\ news' = news /\ faults' = faults
  BY DEF DemoPaidAgain
<1>2. MailInv /\ TellTypes /\ \A c \in Bookings : Heard(c) /\ \A m \in Messages : Told(c, m)
  BY DEF TellInv
<1>3. /\ request'[r] = Hook(b, "notification") /\ Hook(b, "notification") \in RequestRow
      /\ request'[r].booking = b /\ request'[r].hook = "notification"
      /\ \A q \in Requests \ {r} : request'[q] = request[q]
  BY <1>1, <1>2 DEF TellTypes, Hook, RequestRow
<1>4. TellTypes'
  <2>1. request' \in [Requests -> RequestRow]
    BY <1>1, <1>2, <1>3 DEF TellTypes
  <2>2. \A q \in Requests : request'[q].hook # "none" => request'[q].booking \in confirmed'
    BY <1>1, <1>2, <1>3 DEF TellTypes
  <2>3. QED
    BY <1>1, <1>2, <2>1, <2>2 DEF TellTypes
<1>5. faults'.timeout >= faults.timeout
  BY <1>1, <1>2 DEF MailInv, FaultKinds
<1>6. ASSUME NEW c \in Bookings PROVE Heard(c)'
  <2>1. CASE c = b
    <3>1. Notifying(c)' \subseteq Requests /\ IsFiniteSet(Requests)
      BY BoundsAssumption DEF Notifying
    <3>2. /\ Cardinality(Notifying(c)') <= Cardinality(Requests) /\ Cardinality(Notifying(c)') \in Nat
          /\ Cardinality(Requests) \in Nat
      BY <3>1, FewerOnes
    <3>3. QED
      BY <1>1, <2>1, <3>2 DEF Heard
  <2>2. CASE c # b
    <3>1. Notifying(c)' \subseteq Notifying(c)
      BY <1>3, <2>2 DEF Notifying
    <3>2. QED
      BY <1>1, <1>2, <3>1, NoMoreNews
  <2>3. QED
    BY <2>1, <2>2
<1>7. ASSUME NEW c \in Bookings, NEW m \in Messages PROVE Told(c, m)'
  <2>1. Waiting(c, m)' \subseteq Waiting(c, m) /\ Owed(c, m)' \subseteq Owed(c, m)
    BY <1>1, <1>3 DEF Waiting, Owed
  <2>2. QED
    BY <1>1, <1>2, <1>4, <1>5, <2>1, NothingMore
<1>8. QED
  BY <1>4, <1>6, <1>7 DEF TellInv

LEMMA NotifyTells ==
    ASSUME TellInv, MailInv', NEW r \in Requests, Notify(r)
    PROVE  TellInv'
<1>1. PICK b, row :
        /\ b = request[r].booking
        /\ row = IF request[r].hook = "notification" THEN NoRequest ELSE [request[r] EXCEPT !.hook = "queueing"]
  OBVIOUS
<1>2. /\ request[r].hook \in {"confirmation", "notification"}
      /\ request' = [request EXCEPT ![r] = row] /\ news' = [news EXCEPT ![b] = @ + 1]
      /\ confirmed' = confirmed /\ queue' = queue /\ sent' = sent /\ faults' = faults
  BY <1>1 DEF Notify
<1>3. MailInv /\ TellTypes /\ \A c \in Bookings : Heard(c) /\ \A m \in Messages : Told(c, m)
  BY DEF TellInv
<1>4. b \in confirmed /\ b \in Bookings /\ request[r] \in RequestRow
  BY <1>1, <1>2, <1>3 DEF TellTypes
<1>5. /\ row \in RequestRow /\ row.hook \in {"none", "queueing"}
      /\ row.hook = "queueing" => /\ row.booking = b /\ row.left = request[r].left
                                  /\ request[r].hook = "confirmation"
  BY <1>1, <1>2, <1>4 DEF NoRequest, RequestRow
<1>6. request'[r] = row /\ \A q \in Requests \ {r} : request'[q] = request[q]
  BY <1>2, <1>3 DEF TellTypes
<1>7. /\ news' \in [Bookings -> Nat] /\ news'[b] = news[b] + 1
      /\ \A c \in Bookings \ {b} : news'[c] = news[c]
  BY <1>2, <1>3, <1>4 DEF TellTypes
<1>8. TellTypes'
  <2>1. request' \in [Requests -> RequestRow]
    BY <1>2, <1>3, <1>5 DEF TellTypes
  <2>2. \A q \in Requests : request'[q].hook # "none" => request'[q].booking \in confirmed'
    BY <1>2, <1>3, <1>4, <1>5, <1>6 DEF TellTypes
  <2>3. QED
    BY <1>2, <1>3, <1>7, <2>1, <2>2 DEF TellTypes
<1>9. faults'.timeout >= faults.timeout
  BY <1>2, <1>3 DEF MailInv, FaultKinds
<1>10. ASSUME NEW c \in Bookings PROVE Heard(c)'
  <2>1. CASE c = b
    <3>1. r \in Notifying(c) /\ Notifying(c)' \subseteq Notifying(c) \ {r}
      BY <1>1, <1>2, <1>5, <1>6, <2>1 DEF Notifying
    <3>2. /\ IsFiniteSet(Notifying(c)) /\ Cardinality(Notifying(c)) \in Nat /\ news[c] \in Nat
          /\ Cardinality(Requests) \in Nat
      BY <1>3, CountsTyped
    <3>3. /\ Cardinality(Notifying(c)') + 1 <= Cardinality(Notifying(c)) /\ IsFiniteSet(Notifying(c)')
      BY <3>1, <3>2, OneLess
    <3>4. Cardinality(Notifying(c)') \in Nat
      BY <3>3, FS_CardinalityType
    <3>5. news[c] + Cardinality(Notifying(c)) <= Cardinality(Requests)
      BY <1>3 DEF Heard
    <3>6. news'[c] = news[c] + 1 /\ c \in confirmed'
      BY <1>2, <1>4, <1>7, <2>1
    <3>7. QED
      BY <3>2, <3>3, <3>4, <3>5, <3>6 DEF Heard
  <2>2. CASE c # b
    <3>1. Notifying(c)' \subseteq Notifying(c) /\ news'[c] = news[c]
      BY <1>5, <1>6, <1>7, <2>2 DEF Notifying
    <3>2. QED
      BY <1>2, <1>3, <3>1, NoMoreNews
  <2>3. QED
    BY <2>1, <2>2
<1>11. ASSUME NEW c \in Bookings, NEW m \in Messages PROVE Told(c, m)'
  <2>1. Waiting(c, m)' \subseteq Waiting(c, m) /\ Owed(c, m)' \subseteq Owed(c, m)
    BY <1>1, <1>2, <1>5, <1>6 DEF Waiting, Owed
  <2>2. QED
    BY <1>2, <1>3, <1>8, <1>9, <2>1, NothingMore
<1>12. QED
  BY <1>8, <1>10, <1>11 DEF TellInv

\* A message is owed before it waits.
LEMMA EnqueueTells ==
    ASSUME TellInv, MailInv', NEW r \in Requests, NEW m \in Messages, Enqueue(r, m)
    PROVE  TellInv'
<1>1. PICK b, row, task :
        /\ b = request[r].booking /\ task = Task(r, m, 0)
        /\ row = [request[r] EXCEPT !.left = request[r].left \ {m},
                                    !.hook = IF request[r].left = {m} THEN "done" ELSE request[r].hook]
  OBVIOUS
<1>2. /\ request[r].hook = "queueing" /\ m \in request[r].left /\ request[r] \in RequestRow
      /\ request' = [request EXCEPT ![r] = row] /\ queue' = queue \union {task}
      /\ confirmed' = confirmed /\ news' = news /\ sent' = sent /\ faults' = faults
  BY <1>1 DEF Enqueue, TellInv, TellTypes
<1>3. MailInv /\ TellTypes /\ \A c \in Bookings : Heard(c) /\ \A l \in Messages : Told(c, l)
  BY DEF TellInv
<1>4. b \in confirmed /\ b \in Bookings /\ request[r] \in RequestRow
  BY <1>1, <1>2, <1>3 DEF TellTypes
<1>5. /\ row \in RequestRow /\ row.hook \in {"done", "queueing"} /\ row.booking = b
      /\ row.left = request[r].left \ {m}
  BY <1>1, <1>2, <1>4 DEF RequestRow
<1>6. task \in TaskRow /\ task.booking = b /\ task.message = m
  BY <1>1, <1>4, BoundsAssumption DEF Task, TaskRow
<1>7. request'[r] = row /\ \A q \in Requests \ {r} : request'[q] = request[q]
  BY <1>2, <1>3 DEF TellTypes
<1>8. TellTypes'
  <2>1. request' \in [Requests -> RequestRow]
    BY <1>2, <1>3, <1>5 DEF TellTypes
  <2>2. \A q \in Requests : request'[q].hook # "none" => request'[q].booking \in confirmed'
    BY <1>2, <1>3, <1>4, <1>5, <1>7 DEF TellTypes
  <2>3. queue' \subseteq TaskRow /\ IsFiniteSet(queue')
    BY <1>2, <1>3, <1>6, FS_AddElement DEF TellTypes
  <2>4. QED
    BY <1>2, <1>3, <2>1, <2>2, <2>3 DEF TellTypes
<1>9. faults'.timeout = faults.timeout /\ faults.timeout \in Nat
  BY <1>2, <1>3 DEF MailInv, FaultKinds
<1>10. ASSUME NEW c \in Bookings PROVE Heard(c)'
  <2>1. Notifying(c)' \subseteq Notifying(c)
    BY <1>5, <1>7 DEF Notifying
  <2>2. QED
    BY <1>2, <1>3, <2>1, NoMoreNews
<1>11. ASSUME NEW c \in Bookings, NEW l \in Messages PROVE Told(c, l)'
  <2>1. CASE c = b /\ l = m
    <3>1. /\ r \in Owed(c, l) /\ Owed(c, l)' \subseteq Owed(c, l) \ {r}
          /\ Waiting(c, l)' \subseteq Waiting(c, l) \union {task}
      BY <1>1, <1>2, <1>5, <1>6, <1>7, <2>1 DEF Owed, Waiting
    <3>2. /\ IsFiniteSet(Waiting(c, l)) /\ Cardinality(Waiting(c, l)) \in Nat
          /\ IsFiniteSet(Owed(c, l)) /\ Cardinality(Owed(c, l)) \in Nat /\ sent[c][l] \in Nat
      BY <1>3, CountsTyped
    <3>3. IsFiniteSet(Owed(c, l)') /\ Cardinality(Owed(c, l)') + 1 <= Cardinality(Owed(c, l))
      BY <3>1, <3>2, OneLess
    <3>4. IsFiniteSet(Waiting(c, l)') /\ Cardinality(Waiting(c, l)') <= Cardinality(Waiting(c, l)) + 1
      BY <3>1, <3>2, OneMore
    <3>5. Cardinality(Owed(c, l)') \in Nat /\ Cardinality(Waiting(c, l)') \in Nat
      BY <3>3, <3>4, FS_CardinalityType
    <3>6. sent[c][l] + Cardinality(Waiting(c, l)) + Cardinality(Owed(c, l)) <= Due(c)
      BY <1>3 DEF Told
    <3>7. Due(c)' = Due(c) /\ Due(c) \in Nat
      BY <1>2, <1>9 DEF Due
    <3>8. QED
      BY <1>2, <3>2, <3>3, <3>4, <3>5, <3>6, <3>7 DEF Told
  <2>2. CASE ~(c = b /\ l = m)
    <3>1. Waiting(c, l)' \subseteq Waiting(c, l) /\ Owed(c, l)' \subseteq Owed(c, l)
      BY <1>1, <1>2, <1>5, <1>6, <1>7, <2>2 DEF Waiting, Owed
    <3>2. QED
      BY <1>2, <1>3, <1>8, <1>9, <3>1, NothingMore
  <2>3. QED
    BY <2>1, <2>2
<1>12. QED
  BY <1>8, <1>10, <1>11 DEF TellInv

-----------------------------------------------------------------------------
(* Workers.                                                                *)

\* A task ends, or is put back with one try more; its message may have left.
LEMMA TaskTells ==
    ASSUME TellInv, MailInv', NEW task \in queue, NEW again,
           again \in TaskRow /\ again.booking = task.booking /\ again.message = task.message,
           queue' \subseteq (queue \ {task}) \union {again},
           UNCHANGED <<confirmed, request, news>>,
           \/ sent' = sent /\ faults'.timeout >= faults.timeout
           \/ /\ sent' = [sent EXCEPT ![task.booking][task.message] = @ + 1]
              /\ \/ queue' = queue \ {task} /\ faults'.timeout = faults.timeout
                 \/ faults'.timeout = faults.timeout + 1
    PROVE  TellInv'
<1>1. MailInv /\ TellTypes /\ \A c \in Bookings : Heard(c) /\ \A l \in Messages : Told(c, l)
  BY DEF TellInv
<1>2. PICK b \in Bookings, m \in Messages : b = task.booking /\ m = task.message
  BY <1>1 DEF TellTypes, TaskRow
<1>3. /\ sent' \in [Bookings -> [Messages -> Nat]]
      /\ \A c \in Bookings, l \in Messages : c # b \/ l # m => sent'[c][l] = sent[c][l]
      /\ sent'[b][m] = sent[b][m] \/ sent'[b][m] = sent[b][m] + 1
  <2>1. sent \in [Bookings -> [Messages -> Nat]]
    BY <1>1 DEF TellTypes
  <2>2. CASE sent' = sent
    BY <2>1, <2>2
  <2>3. CASE sent' = [sent EXCEPT ![task.booking][task.message] = @ + 1]
    BY <1>2, <2>1, <2>3
  <2>4. QED
    BY <2>2, <2>3
<1>4. TellTypes'
  <2>1. queue' \subseteq TaskRow
    BY <1>1 DEF TellTypes
  <2>2. IsFiniteSet(queue')
    BY <1>1, OneMoved DEF TellTypes
  <2>3. QED
    BY <1>1, <1>3, <2>1, <2>2 DEF TellTypes
<1>5. faults.timeout \in Nat /\ faults'.timeout \in Nat /\ faults'.timeout >= faults.timeout
  BY <1>1 DEF MailInv, FaultKinds
<1>6. ASSUME NEW c \in Bookings PROVE Heard(c)'
  <2>1. Notifying(c)' = Notifying(c)
    BY DEF Notifying
  <2>2. QED
    BY <1>1, <2>1, NoMoreNews
<1>7. ASSUME NEW c \in Bookings, NEW l \in Messages PROVE Told(c, l)'
  <2>1. Owed(c, l)' = Owed(c, l)
    BY DEF Owed
  <2>2. CASE c = b /\ l = m
    <3>1. /\ task \in Waiting(c, l) /\ Waiting(c, l)' \subseteq (Waiting(c, l) \ {task}) \union {again}
          /\ queue' = queue \ {task} => Waiting(c, l)' \subseteq Waiting(c, l) \ {task}
      BY <1>2, <2>2 DEF Waiting
    <3>2. /\ IsFiniteSet(Waiting(c, l)) /\ Cardinality(Waiting(c, l)) \in Nat
          /\ Cardinality(Owed(c, l)) \in Nat /\ sent[c][l] \in Nat
      BY <1>1, CountsTyped
    <3>3. IsFiniteSet(Waiting(c, l)') /\ Cardinality(Waiting(c, l)') <= Cardinality(Waiting(c, l))
      BY <3>1, <3>2, OneMoved
    <3>4. queue' = queue \ {task} => Cardinality(Waiting(c, l)') + 1 <= Cardinality(Waiting(c, l))
      BY <3>1, <3>2, OneLess
    <3>5. Cardinality(Waiting(c, l)') \in Nat
      BY <3>3, FS_CardinalityType
    <3>6. sent[c][l] + Cardinality(Waiting(c, l)) + Cardinality(Owed(c, l)) <= Due(c)
      BY <1>1 DEF Told
    <3>7. Cardinality(Waiting(c, l)) > 0
      <4>1. IsFiniteSet({}) /\ Cardinality({}) = 0
        BY FS_EmptySet
      <4>2. {} \subseteq Waiting(c, l) \ {task} /\ task \in Waiting(c, l)
        BY <3>1
      <4>3. Cardinality({}) + 1 <= Cardinality(Waiting(c, l))
        BY ONLY <3>2, <4>2, OneLess
      <4>4. QED
        BY <3>2, <4>1, <4>3
    <3>8. c \in confirmed
      BY <3>2, <3>6, <3>7 DEF Due
    <3>9. Due(c) = 1 + faults.timeout /\ Due(c)' = 1 + faults'.timeout
      BY <3>8 DEF Due
    <3>10. \/ sent'[c][l] = sent[c][l]
           \/ /\ sent'[c][l] = sent[c][l] + 1
              /\ queue' = queue \ {task} \/ faults'.timeout = faults.timeout + 1
      BY <1>3, <2>2
    <3>11. sent'[c][l] + Cardinality(Waiting(c, l)') + Cardinality(Owed(c, l)) <= Due(c)'
      BY <1>5, <3>2, <3>3, <3>4, <3>5, <3>6, <3>9, <3>10
    <3>12. QED
      BY <2>1, <3>11 DEF Told
  <2>3. CASE ~(c = b /\ l = m)
    <3>1. Waiting(c, l)' \subseteq Waiting(c, l) /\ sent'[c][l] = sent[c][l]
      BY <1>2, <1>3, <2>3 DEF Waiting
    <3>2. QED
      BY <1>1, <1>4, <1>5, <2>1, <3>1, NothingMore
  <2>4. QED
    BY <2>2, <2>3
<1>8. QED
  BY <1>4, <1>6, <1>7 DEF TellInv

LEMMA TaskSteps ==
    ASSUME TellInv, MailInv', NEW task \in queue, Run(task) \/ SentWithoutAnswer(task) \/ TaskLost(task)
    PROVE  TellInv'
<1>1. MailInv /\ TellTypes /\ task \in TaskRow /\ faults.timeout \in Nat
  BY DEF TellInv, TellTypes, MailInv, FaultKinds
<1>2. CASE Send(task)
  BY <1>1, <1>2, TaskTells DEF Send
<1>3. CASE TaskLost(task)
  <2>1. faults'.timeout >= faults.timeout
    BY <1>1, <1>3, TimeoutsGrow DEF TaskLost, FaultKinds
  <2>2. QED
    BY <1>1, <1>3, <2>1, TaskTells DEF TaskLost
<1>4. ASSUME Requeue(task)
      PROVE  \E again \in TaskRow : /\ again.booking = task.booking /\ again.message = task.message
                                    /\ queue' \subseteq (queue \ {task}) \union {again}
  <2>1. CASE ~LastTry(task) /\ queue' = (queue \ {task}) \union {[task EXCEPT !.tries = @ + 1]}
    <3>1. task.tries + 1 \in 0 .. MaxRetries
      BY <1>1, <2>1, BoundsAssumption DEF TaskRow, LastTry
    <3>2. /\ [task EXCEPT !.tries = @ + 1] \in TaskRow
          /\ [task EXCEPT !.tries = @ + 1].booking = task.booking
          /\ [task EXCEPT !.tries = @ + 1].message = task.message
      BY <1>1, <3>1 DEF TaskRow
    <3>3. QED
      BY <2>1, <3>2
  <2>2. CASE queue' = queue \ {task}
    BY <1>1, <2>2
  <2>3. QED
    BY <1>4, <2>1, <2>2 DEF Requeue
<1>5. CASE NotSent(task)
  <2>1. PICK again \in TaskRow : /\ again.booking = task.booking /\ again.message = task.message
                                 /\ queue' \subseteq (queue \ {task}) \union {again}
    BY <1>4, <1>5 DEF NotSent
  <2>2. UNCHANGED <<confirmed, request, news>> /\ sent' = sent /\ faults'.timeout >= faults.timeout
    BY <1>1, <1>5 DEF NotSent
  <2>3. QED
    BY <2>1, <2>2, TaskTells
<1>6. CASE SentWithoutAnswer(task)
  <2>1. PICK again \in TaskRow : /\ again.booking = task.booking /\ again.message = task.message
                                 /\ queue' \subseteq (queue \ {task}) \union {again}
    BY <1>4, <1>6 DEF SentWithoutAnswer
  <2>2. faults'.timeout = faults.timeout + 1
    BY <1>1, <1>6, TimeoutsGrow DEF SentWithoutAnswer, FaultKinds
  <2>3. /\ UNCHANGED <<confirmed, request, news>>
        /\ sent' = [sent EXCEPT ![task.booking][task.message] = @ + 1]
    BY <1>6 DEF SentWithoutAnswer
  <2>4. QED
    BY <2>1, <2>2, <2>3, TaskTells
<1>7. CASE Refused(task)
  <2>1. UNCHANGED <<confirmed, request, news>> /\ sent' = sent /\ queue' = queue \ {task}
    BY <1>7 DEF Refused
  <2>2. faults'.timeout >= faults.timeout
    BY <1>1, <1>7 DEF Refused
  <2>3. queue' \subseteq (queue \ {task}) \union {task}
    BY <2>1
  <2>4. QED
    BY <1>1, <2>1, <2>2, <2>3, TaskTells
<1>8. QED
  BY <1>2, <1>3, <1>5, <1>6, <1>7 DEF Run

LEMMA TellInit == Init => TellInv
<1> SUFFICES ASSUME Init PROVE TellInv
  OBVIOUS
<1>1. MailInv
  BY MailInit
<1>2. /\ confirmed = {} /\ request = [r \in Requests |-> NoRequest] /\ queue = {}
      /\ news = [b \in Bookings |-> 0] /\ sent = [b \in Bookings |-> [m \in Messages |-> 0]]
  BY DEF Init
<1>3. NoRequest \in RequestRow /\ NoRequest.hook = "none"
  BY DEF NoRequest, RequestRow
<1>4. TellTypes
  <2>1. IsFiniteSet({})
    BY FS_EmptySet
  <2>2. sent \in [Bookings -> [Messages -> Nat]] /\ news \in [Bookings -> Nat]
    BY <1>2
  <2>3. QED
    BY <1>2, <1>3, <2>1, <2>2 DEF TellTypes
<1>5. ASSUME NEW b \in Bookings PROVE Heard(b)
  <2>1. news[b] = 0 /\ Cardinality(Notifying(b)) <= Cardinality(Requests)
        /\ Cardinality(Notifying(b)) \in Nat
    BY <1>2, <1>4, CountsTyped
  <2>2. QED
    BY <2>1 DEF Heard
<1>6. ASSUME NEW b \in Bookings, NEW m \in Messages PROVE Told(b, m)
  <2>1. sent[b][m] = 0 /\ Waiting(b, m) = {} /\ Owed(b, m) = {}
    BY <1>2, <1>3 DEF Waiting, Owed
  <2>2. Due(b) = 0
    BY <1>2 DEF Due
  <2>3. QED
    BY <2>1, <2>2, FS_EmptySet DEF Told
<1>7. QED
  BY <1>1, <1>4, <1>5, <1>6 DEF TellInv

LEMMA TellSteps ==
    ASSUME TellInv, [Next]_vars
    PROVE  TellInv'
<1>1. MailInv /\ MailInv' /\ TellTypes /\ faults.timeout \in Nat
  BY MailSteps DEF TellInv, MailInv, FaultKinds
<1>2. ASSUME UNCHANGED notices, faults'.timeout >= faults.timeout PROVE TellInv'
  <2>1. TellTypes'
    BY <1>1, <1>2 DEF TellTypes, notices
  <2>2. \A b \in Bookings : /\ news'[b] = news[b] /\ Notifying(b)' \subseteq Notifying(b)
                            /\ \A m \in Messages : /\ Waiting(b, m)' \subseteq Waiting(b, m)
                                                   /\ Owed(b, m)' \subseteq Owed(b, m)
    BY <1>2 DEF notices, Notifying, Waiting, Owed
  <2>3. UNCHANGED <<confirmed, sent>>
    BY <1>2 DEF notices
  <2>4. QED
    BY <1>1, <1>2, <2>1, <2>2, <2>3, QuietStep
<1>3. CASE MarkPaid \/ MailStep \/ UNCHANGED vars
  BY <1>1, <1>2, <1>3 DEF MarkPaid, MailStep, TakeMail, SendMail, CommitMail, MailNotSent, vars, notices
<1>4. CASE MarkPaidUnqueued \/ MailWithoutAnswer \/ MailLost \/ MailRepeated
  <2>1. PICK kind \in FaultKinds : Fault(kind)
    BY <1>4 DEF MarkPaidUnqueued, MailWithoutAnswer, MailLost, MailRepeated, FaultKinds
  <2>2. UNCHANGED notices
    BY <1>4 DEF MarkPaidUnqueued, MailWithoutAnswer, MailLost, MailRepeated
  <2>3. faults'.timeout >= faults.timeout
    BY <1>1, <2>1, TimeoutsGrow
  <2>4. QED
    BY <1>2, <2>2, <2>3
<1>5. ASSUME NEW r \in Requests,
             \/ \E b \in Bookings : Confirm(r, b) \/ DemoPaidAgain(r, b)
             \/ RunHook(r)
             \/ \E kind \in {"crash", "broker"} : HookLost(r, kind)
      PROVE  TellInv'
  BY <1>1, <1>5, ConfirmTells, DemoTells, NotifyTells, EnqueueTells, HookLostTells DEF RunHook
<1>6. ASSUME NEW task \in queue, Run(task) \/ SentWithoutAnswer(task) \/ TaskLost(task) PROVE TellInv'
  BY <1>1, <1>6, TaskSteps
<1>7. QED
  BY <1>3, <1>4, <1>5, <1>6 DEF Next

\* However often the gateway reports a payment, the demo payment is repeated
\* and the workers retry, each message of a booking leaves once, but for the
\* answers that were lost, and nobody is told of a booking that is not
\* confirmed (CorePaymentSuccessView, PublicDemoPaymentView and the tasks they
\* queue when they commit).
THEOREM BookingsToldOnce == Spec => []ToldOnce
<1>1. TellInv => ToldOnce
  <2> SUFFICES ASSUME TellInv PROVE ToldOnce
    OBVIOUS
  <2>1. MailInv /\ TellTypes /\ \A b \in Bookings : Heard(b) /\ \A m \in Messages : Told(b, m)
    BY DEF TellInv
  <2>2. faults.timeout \in Nat /\ faults.timeout <= MaxFaults /\ MaxFaults \in Nat
    <3>1. /\ faults.timeout \in Nat /\ faults.crash \in Nat /\ faults.broker \in Nat /\ faults.repeat \in Nat
          /\ NumberOfFaults <= MaxFaults
      BY <2>1 DEF MailInv, FaultKinds
    <3>2. QED
      BY <3>1, BoundsAssumption DEF NumberOfFaults
  <2>3. ASSUME NEW b \in Bookings, NEW m \in Messages
        PROVE  /\ sent[b][m] + Cardinality({task \in queue : task.booking = b /\ task.message = m})
                    <= IF b \in confirmed THEN 1 + faults.timeout ELSE 0
               /\ sent[b][m] \in 0 .. 1 + MaxFaults
    <3>1. /\ sent[b][m] + Cardinality(Waiting(b, m)) + Cardinality(Owed(b, m)) <= Due(b)
          /\ Cardinality(Waiting(b, m)) \in Nat /\ Cardinality(Owed(b, m)) \in Nat /\ sent[b][m] \in Nat
      BY <2>1, CountsTyped DEF Told
    <3>2. Due(b) \in Nat /\ Due(b) <= 1 + MaxFaults
      BY <2>2 DEF Due
    <3>3. sent[b][m] + Cardinality(Waiting(b, m)) <= Due(b) /\ sent[b][m] \in 0 .. 1 + MaxFaults
      BY <2>2, <3>1, <3>2
    <3>4. QED
      BY <3>3 DEF Waiting, Due
  <2>4. ASSUME NEW b \in Bookings
        PROVE  news[b] \in 0 .. Cardinality(Requests) /\ (b \notin confirmed => news[b] = 0)
    <3>1. /\ Cardinality(Notifying(b)) \in Nat /\ news[b] \in Nat /\ Cardinality(Requests) \in Nat
      BY <2>1, CountsTyped
    <3>2. QED
      BY <2>1, <3>1 DEF Heard
  <2>5. NoticesTypeOK
    <3>1. sent \in [Bookings -> [Messages -> 0 .. 1 + MaxFaults]]
      BY <2>1, <2>3 DEF TellTypes
    <3>2. news \in [Bookings -> 0 .. Cardinality(Requests)]
      BY <2>1, <2>4 DEF TellTypes
    <3>3. confirmed \subseteq Bookings /\ (\A task \in queue : task.tries \in 0 .. MaxRetries)
          /\ mail.tries \in 0 .. MaxRetries /\ mailed \in Nat
      BY <2>1 DEF TellTypes, TaskRow, MailInv
    <3>4. QED
      BY <3>1, <3>2, <3>3 DEF NoticesTypeOK
  <2>6. QED
    BY <2>3, <2>4, <2>5 DEF ToldOnce
<1>2. TellInv /\ [Next]_vars => TellInv'
  BY TellSteps
<1>3. QED
  BY <1>1, <1>2, TellInit, PTL DEF Spec
=============================================================================
