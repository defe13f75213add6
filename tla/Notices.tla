------------------------------ MODULE Notices ------------------------------
(***************************************************************************)
(* What guests, hotels and Visit77 are told, and when (tasks.py and the    *)
(* views that queue its tasks).                                            *)
(*                                                                         *)
(* A payment confirms a booking inside a transaction; once it has          *)
(* committed, a hook of the same request stores the hotel's notification   *)
(* and hands one task for each message to the broker.  A worker takes a    *)
(* task off the broker before it runs it (Celery's default), and puts it   *)
(* back at most MaxRetries times when the message could not be sent; a     *)
(* text message that the gateway rejects is never tried again.  The mail   *)
(* about a paid remittance is sent under the statement's row lock and      *)
(* recorded in its audit log.                                              *)
(*                                                                         *)
(* Abstracted: the texts, the choice of addresses (a message without one   *)
(* counts as sent), receipts as attachments, the push to Core, which is    *)
(* tried once and may fail.  One statement stands for all of them: each    *)
(* has its own lock and log.                                               *)
(***************************************************************************)
EXTENDS Naturals, FiniteSets

CONSTANTS
    Bookings,      \* OTA bookings waiting for their payment
    Requests,      \* HTTP requests: the gateway's reports and demo payments
    Messages,      \* the mails and text messages of one confirmation
    Texts,         \* those of them that are text messages
    MaxRetries,    \* max_retries of the tasks
    MaxFaults      \* bound: crashes, broker outages, timeouts, repeated tasks

ASSUME BoundsAssumption ==
    Texts \subseteq Messages /\ IsFiniteSet(Requests) /\ MaxRetries \in Nat /\ MaxFaults \in Nat

VARIABLES
    confirmed,  \* bookings in status confirmed, with a paid payment
    request,    \* how far each request has got
    news,       \* OTABookingNotification rows of type NEW, per booking
    queue,      \* confirmation tasks the broker holds
    sent,       \* messages that left, per booking and kind
    dropped,    \* messages given up, and why (history)
    paid,       \* whether the statement is marked paid
    mail,       \* the task of the statement's mail
    log,        \* whether the audit log has paid_email_sent
    mailed,     \* mails about the statement that left
    faults      \* what has gone wrong so far, by kind

notices == <<confirmed, request, news, queue, sent, dropped>>
statement == <<paid, mail, log, mailed>>
vars == <<confirmed, request, news, queue, sent, dropped, paid, mail, log, mailed, faults>>

FaultKinds == {"crash", "broker", "timeout", "repeat"}
NumberOfFaults == faults.crash + faults.broker + faults.timeout + faults.repeat
Fault(kind) ==
    /\ NumberOfFaults < MaxFaults
    /\ faults' = [faults EXCEPT ![kind] = @ + 1]

NoRequest == [booking |-> "none", hook |-> "none", left |-> {}]
Hook(b, kind) == [booking |-> b, hook |-> kind, left |-> Messages]

-----------------------------------------------------------------------------
(* Requests.                                                               *)

\* Seeded fault: a payment that is reported again is recorded again.
PayAgain(r, b) ==
    /\ request[r] = NoRequest
    /\ request' = [request EXCEPT ![r] = Hook(b, "confirmation")]
    /\ confirmed' = confirmed \union {b}

\* CorePaymentSuccessView and PublicDemoPaymentView: the first report of the
\* payment confirms the booking under its lock; a later one finds it paid.
Pay(r, b) ==
    /\ request[r] = NoRequest /\ b \notin confirmed
    /\ request' = [request EXCEPT ![r] = Hook(b, "confirmation")]
    /\ confirmed' = confirmed \union {b}

Confirm(r, b) == Pay(r, b) /\ UNCHANGED <<news, queue, sent, dropped, statement, faults>>

\* A repeated demo payment looks whether the hotel was notified.
DemoPaidAgain(r, b) ==
    /\ request[r] = NoRequest /\ b \in confirmed /\ news[b] = 0
    /\ request' = [request EXCEPT ![r] = Hook(b, "notification")]
    /\ UNCHANGED <<confirmed, news, queue, sent, dropped, statement, faults>>

\* The hook stores the notification first.
Notify(r) ==
    /\ request[r].hook \in {"confirmation", "notification"}
    /\ news' = [news EXCEPT ![request[r].booking] = @ + 1]
    /\ request' = [request EXCEPT ![r] =
                     IF @.hook = "notification" THEN NoRequest ELSE [@ EXCEPT !.hook = "queueing"]]
    /\ UNCHANGED <<confirmed, queue, sent, dropped, statement, faults>>

Task(r, m, tries) == [request |-> r, booking |-> request[r].booking, message |-> m, tries |-> tries]

\* Then it hands the tasks over, one by one.
Enqueue(r, m) ==
    /\ request[r].hook = "queueing" /\ m \in request[r].left
    /\ queue' = queue \union {Task(r, m, 0)}
    /\ request' = [request EXCEPT ![r].left = @ \ {m},
                                  ![r].hook = IF request[r].left = {m} THEN "done" ELSE @]
    /\ UNCHANGED <<confirmed, news, sent, dropped, statement, faults>>

\* A process that dies, or a broker that does not answer, ends the hook: the
\* booking stays confirmed and nothing queues what is left.
HookLost(r, kind) ==
    /\ request[r].hook \in {"confirmation", "notification", "queueing"}
    /\ kind = "broker" => request[r].hook = "queueing"
    /\ request' = [request EXCEPT ![r].hook = "done", ![r].left = {}]
    /\ Fault(kind)
    /\ UNCHANGED <<confirmed, news, queue, sent, dropped, statement>>

-----------------------------------------------------------------------------
(* Workers.                                                                *)

LastTry(task) == task.tries = MaxRetries
GivenUp(task, why) == <<task.booking, task.message, why>>

\* Seeded fault: a task that failed is not put back.
RequeueNever(task) ==
    /\ queue' = queue \ {task}
    /\ dropped' = IF LastTry(task) THEN dropped \union {GivenUp(task, "retries")} ELSE dropped

\* autoretry_for, max_retries=3
Requeue(task) ==
    \/ /\ ~LastTry(task)
       /\ queue' = (queue \ {task}) \union {[task EXCEPT !.tries = @ + 1]}
       /\ dropped' = dropped
    \/ /\ LastTry(task)
       /\ queue' = queue \ {task}
       /\ dropped' = dropped \union {GivenUp(task, "retries")}

Send(task) ==
    /\ task \in queue
    /\ queue' = queue \ {task}
    /\ sent' = [sent EXCEPT ![task.booking][task.message] = @ + 1]
    /\ UNCHANGED <<confirmed, request, news, dropped, statement, faults>>

\* The server cannot be reached, or answers with an error.
NotSent(task) ==
    /\ task \in queue
    /\ Requeue(task)
    /\ UNCHANGED <<confirmed, request, news, sent, statement, faults>>

\* The gateway rejects the text message for good (PermanentSMSDeliveryError,
\* which the task catches), or building it raises what the task does not
\* retry: the task ends.
Refused(task) ==
    /\ task \in queue /\ task.message \in Texts
    /\ queue' = queue \ {task}
    /\ dropped' = dropped \union {GivenUp(task, "refused")}
    /\ UNCHANGED <<confirmed, request, news, sent, statement, faults>>

\* The message left, and the answer was lost: it is tried again.
SentWithoutAnswer(task) ==
    /\ task \in queue
    /\ Requeue(task)
    /\ sent' = [sent EXCEPT ![task.booking][task.message] = @ + 1]
    /\ Fault("timeout")
    /\ UNCHANGED <<confirmed, request, news, statement>>

\* The worker dies with the task it has taken.
TaskLost(task) ==
    /\ task \in queue
    /\ queue' = queue \ {task}
    /\ Fault("crash")
    /\ UNCHANGED <<confirmed, request, news, sent, dropped, statement>>

-----------------------------------------------------------------------------
(* The mail about a paid statement.  "queued" is with the broker,          *)
(* "sending" holds the statement's lock after the checks, "sent" has       *)
(* handed the mail over and not committed its log.                         *)

NoMail == [state |-> "none", tries |-> 0]

MarkPaid ==
    /\ ~paid
    /\ paid' = TRUE
    /\ mail' = [state |-> "queued", tries |-> 0]
    /\ UNCHANGED <<log, mailed, notices, faults>>

\* The hook is robust: without the broker the payment stands, mail or not.
MarkPaidUnqueued ==
    /\ ~paid
    /\ paid' = TRUE
    /\ Fault("broker")
    /\ UNCHANGED <<mail, log, mailed, notices>>

\* Seeded fault: the audit log is not looked at.
MayMailAlways == paid

MayMail == paid /\ ~log

TakeMail ==
    /\ mail.state = "queued"
    /\ mail' = IF MayMail THEN [mail EXCEPT !.state = "sending"] ELSE NoMail
    /\ UNCHANGED <<paid, log, mailed, notices, faults>>

SendMail ==
    /\ mail.state = "sending"
    /\ mail' = [mail EXCEPT !.state = "sent"]
    /\ mailed' = mailed + 1
    /\ UNCHANGED <<paid, log, notices, faults>>

CommitMail ==
    /\ mail.state = "sent"
    /\ log' = TRUE
    /\ mail' = NoMail
    /\ UNCHANGED <<paid, mailed, notices, faults>>

RetryMail ==
    mail' = IF mail.tries < MaxRetries THEN [state |-> "queued", tries |-> mail.tries + 1] ELSE NoMail

\* Only an OSError is tried again; a hotel without a valid address, or a
\* statement that cannot be rendered, ends the task.
MailNotSent ==
    /\ mail.state = "sending"
    /\ RetryMail \/ mail' = NoMail
    /\ UNCHANGED <<paid, log, mailed, notices, faults>>

\* The connection breaks after the mail was accepted (an OSError), and the
\* transaction is rolled back.
MailWithoutAnswer ==
    /\ mail.state = "sending"
    /\ RetryMail
    /\ mailed' = mailed + 1
    /\ Fault("timeout")
    /\ UNCHANGED <<paid, log, notices>>

MailLost ==
    /\ mail.state \in {"sending", "sent"}
    /\ mail' = NoMail
    /\ Fault("crash")
    /\ UNCHANGED <<paid, log, mailed, notices>>

\* The broker gives a task out a second time.
MailRepeated ==
    /\ mail = NoMail /\ paid
    /\ mail' = [state |-> "queued", tries |-> 0]
    /\ Fault("repeat")
    /\ UNCHANGED <<paid, log, mailed, notices>>

-----------------------------------------------------------------------------
Init ==
    /\ confirmed = {}
    /\ request = [r \in Requests |-> NoRequest]
    /\ news = [b \in Bookings |-> 0]
    /\ queue = {}
    /\ dropped = {}
    /\ sent = [b \in Bookings |-> [m \in Messages |-> 0]]
    /\ paid = FALSE /\ mail = NoMail /\ log = FALSE /\ mailed = 0
    /\ faults = [kind \in FaultKinds |-> 0]

RunHook(r) == Notify(r) \/ \E m \in Messages : Enqueue(r, m)
Run(task) == Send(task) \/ NotSent(task) \/ Refused(task)
MailStep == TakeMail \/ SendMail \/ CommitMail \/ MailNotSent

Next ==
    \/ \E r \in Requests :
         \/ \E b \in Bookings : Confirm(r, b) \/ DemoPaidAgain(r, b)
         \/ RunHook(r)
         \/ \E kind \in {"crash", "broker"} : HookLost(r, kind)
    \/ \E task \in queue : Run(task) \/ SentWithoutAnswer(task) \/ TaskLost(task)
    \/ MarkPaid \/ MarkPaidUnqueued \/ MailStep \/ MailWithoutAnswer \/ MailLost \/ MailRepeated

\* A request that has begun its hook goes on, and workers take the tasks;
\* how often a message can be sent is left open.
Fairness ==
    /\ \A r \in Requests : WF_vars(RunHook(r))
    /\ \A r \in Requests, m \in Messages :
         WF_vars(\E task \in queue : task.request = r /\ task.message = m /\ Run(task))
    /\ WF_vars(MailStep)

Spec == Init /\ [][Next]_vars
FairSpec == Spec /\ Fairness

-----------------------------------------------------------------------------
(* Properties.                                                             *)

\* Every variable keeps its type; no task is tried more often than allowed.
NoticesTypeOK ==
    /\ confirmed \subseteq Bookings
    /\ news \in [Bookings -> 0..Cardinality(Requests)]
    /\ sent \in [Bookings -> [Messages -> 0..1 + MaxFaults]]
    /\ \A task \in queue : task.tries \in 0..MaxRetries
    /\ mail.tries \in 0..MaxRetries /\ mailed \in Nat

\* However often the payment is reported and its messages are retried, each
\* message of a booking leaves once; only an answer lost on the way repeats
\* it (views.py:1647-1664, "payment was already processed, so do NOT send
\* email again").  Of a payment that was not committed nobody is told
\* (views.py:1539-1546, 1688-1696: the notices hang on the commit).
ToldOnce ==
    /\ NoticesTypeOK
    /\ \A b \in Bookings, m \in Messages :
         sent[b][m] + Cardinality({task \in queue : task.booking = b /\ task.message = m})
             <= IF b \in confirmed THEN 1 + faults.timeout ELSE 0
    /\ \A b \in Bookings \ confirmed : news[b] = 0

\* The merchant is told once of a payout ("Notify the configured merchant
\* contact once for this payout", tasks.py:382): the mail repeats only when
\* the mail server's answer, or the log's commit, was lost.
PayoutToldOnce == mailed <= 1 + faults.timeout + faults.crash

\* A confirmed booking reaches the hotel's list and each of its recipients.
\* A message may be given up, a mail only after its retries, a text also when
\* the gateway rejects it (sms.py:64-70, tasks.py:363-375); else only a crash
\* or a broker that is down leaves somebody untold.
ConfirmedIsTold ==
    \A b \in Bookings :
        b \in confirmed ~>
            \/ /\ news[b] > 0
               /\ \A m \in Messages :
                    \/ sent[b][m] > 0
                    \/ <<b, m, "retries">> \in dropped
                    \/ m \in Texts /\ <<b, m, "refused">> \in dropped
            \/ faults.crash + faults.broker > 0
=============================================================================
