--------------------------------- MODULE Push ---------------------------------
(***************************************************************************)
(* Notifications to the owner's browsers: queued with the inquiry that     *)
(* causes them (internal/console/content.go), sent one browser at a time   *)
(* by the job of internal/push/push.go, to browsers that come and go.      *)
(***************************************************************************)
EXTENDS Integers

CONSTANTS
  Browsers,        \* endpoints
  MaxInquiries     \* bound: messages from the site

VARIABLES
  inquiries,       \* event_inquiries -> the status of each
  subscriptions,   \* push_subscriptions: the endpoints of it
  installed,       \* browsers that still exist
  notes,           \* the notification of each inquiry: [phase, todo, failed]
  delivered,            \* history: the browsers each was delivered to
  owed             \* history: subscribed when it was queued, and ever since

pushVars == <<inquiries, subscriptions, installed, notes, delivered, owed>>

ASSUME InquiryAssumption == MaxInquiries \in Nat

Inquiries == 1..MaxInquiries
Unsent    == [phase |-> "none", todo |-> {}, failed |-> FALSE]
Waiting   == [phase |-> "queued", todo |-> {}, failed |-> FALSE]

PushInit ==
  /\ inquiries = [i \in Inquiries |-> "none"]
  /\ subscriptions = {} /\ installed = Browsers
  /\ notes = [i \in Inquiries |-> Unsent]
  /\ delivered = [i \in Inquiries |-> {}]
  /\ owed = [i \in Inquiries |-> {}]

-----------------------------------------------------------------------------
(* SavePushSubscription: an upsert on the endpoint.                        *)
SavePushSubscription(b) ==
  /\ b \in installed
  /\ subscriptions' = subscriptions \union {b}
  /\ UNCHANGED <<inquiries, installed, notes, delivered, owed>>

Forgotten(b) ==
  /\ subscriptions' = subscriptions \ {b}
  /\ owed' = [i \in Inquiries |-> owed[i] \ {b}]

ForgetPushSubscription(b) ==
  /\ b \in installed /\ Forgotten(b)
  /\ UNCHANGED <<inquiries, installed, notes, delivered>>

(* The owner clears or reinstalls a phone; nothing here hears of it.       *)
Uninstall(b) ==
  /\ installed' = installed \ {b}
  /\ UNCHANGED <<inquiries, subscriptions, notes, delivered, owed>>

-----------------------------------------------------------------------------
CreateEventInquiry(i) == inquiries' = [inquiries EXCEPT ![i] = "new"]

(* Queue: in the caller's transaction.                                     *)
Queue(i) ==
  /\ notes' = [notes EXCEPT ![i] = Waiting]
  /\ owed' = [owed EXCEPT ![i] = subscriptions]

(* The row and the notification commit together.  A filled honeypot, or a  *)
(* form that is refused, writes nothing.                                   *)
SubmitInquiry(i) ==
  /\ inquiries[i] = "none" /\ \A j \in 1..(i - 1) : inquiries[j] # "none"
  /\ CreateEventInquiry(i) /\ Queue(i)
  /\ UNCHANGED <<subscriptions, installed, delivered>>

(* Any status of the three; a second that is not "new" would tell nothing  *)
(* more apart here.                                                        *)
SetInquiryStatus(i, status) ==
  /\ inquiries[i] # "none"
  /\ inquiries' = [inquiries EXCEPT ![i] = status]
  /\ UNCHANGED <<subscriptions, installed, notes, delivered, owed>>

-----------------------------------------------------------------------------
(* Handler: the subscriptions are listed, and each is sent to in turn.     *)
ListPushSubscriptions(i) ==
  /\ notes[i].phase = "queued"
  /\ notes' = [notes EXCEPT ![i] = [phase |-> "sending", todo |-> subscriptions,
                                    failed |-> FALSE]]
  /\ UNCHANGED <<inquiries, subscriptions, installed, delivered, owed>>

Tried(i, b, failed) ==
  notes' = [notes EXCEPT ![i].todo = @ \ {b}, ![i].failed = @ \/ failed]

(* The push service accepts it.                                            *)
Deliver(i, b) ==
  /\ b \in installed
  /\ delivered' = [delivered EXCEPT ![i] = @ \union {b}]
  /\ Tried(i, b, FALSE)
  /\ UNCHANGED <<subscriptions, owed>>

(* Rate limits, a service having a moment, a network that is down.         *)
FailToSend(i, b) ==
  /\ Tried(i, b, TRUE)
  /\ UNCHANGED <<subscriptions, delivered, owed>>

(* ErrGone: the row is deleted, or the deletion fails.                     *)
DeletePushSubscription(i, b) ==
  /\ b \notin installed
  /\ \/ Tried(i, b, FALSE) /\ Forgotten(b)
     \/ Tried(i, b, TRUE) /\ UNCHANGED <<subscriptions, owed>>
  /\ UNCHANGED delivered

Send(i, b) ==
  /\ notes[i].phase = "sending" /\ b \in notes[i].todo
  /\ Deliver(i, b) \/ FailToSend(i, b) \/ DeletePushSubscription(i, b)
  /\ UNCHANGED <<inquiries, installed>>

(* Mutant: a failure is logged, and the job is done.                       *)
Logged(i) == [phase |-> "done", todo |-> {}, failed |-> FALSE]

(* A failure hands the job back, to be run again after its backoff.        *)
Result(i) == IF notes[i].failed THEN Waiting ELSE [phase |-> "done", todo |-> {}, failed |-> FALSE]

Return(i) ==
  /\ notes[i].phase = "sending" /\ notes[i].todo = {}
  /\ notes' = [notes EXCEPT ![i] = Result(i)]
  /\ UNCHANGED <<inquiries, subscriptions, installed, delivered, owed>>

(* The server dies: the lease runs out, and the job is claimed again.      *)
CrashInSend(i) ==
  /\ notes[i].phase = "sending"
  /\ notes' = [notes EXCEPT ![i] = Waiting]
  /\ UNCHANGED <<inquiries, subscriptions, installed, delivered, owed>>

PushNext ==
  \/ \E b \in Browsers :
       SavePushSubscription(b) \/ ForgetPushSubscription(b) \/ Uninstall(b)
  \/ \E i \in Inquiries :
       \/ SubmitInquiry(i) \/ ListPushSubscriptions(i) \/ Return(i) \/ CrashInSend(i)
       \/ \E status \in {"new", "closed"} : SetInquiryStatus(i, status)
       \/ \E b \in Browsers : Send(i, b)

PushSpec == PushInit /\ [][PushNext]_pushVars

-----------------------------------------------------------------------------
(* Handler: "a phone that was unreachable when the other succeeded should  *)
(* get it on the retry".  When the job is done, every browser that was     *)
(* subscribed when the notification was queued has had it, unless it was   *)
(* switched off or found to be gone since.                                 *)
ToldOrGone == \A i \in Inquiries : notes[i].phase = "done" => owed[i] \subseteq delivered[i]
=============================================================================
